---- MODULE Spec2Model ----
(***************************************************************************)
(* Model of the nyxstack/i18n translation library: the dictionary          *)
(* registry, the default language, Dictionary.Get with its fallback, the   *)
(* key deriver (slugify), the placeholder normalizer (normalize), the      *)
(* plural engine (determinePluralForm, extractPluralForm) and the          *)
(* translation functions T, F, S, P and R.                                 *)
(*                                                                         *)
(* A Go string is modelled as a sequence of one-character strings, so that *)
(* searching, replacing, trimming and formatting are computed character by *)
(* character, as the code computes them.                                   *)
(***************************************************************************)
EXTENDS Integers, Sequences, FiniteSets, TLC

(***************************************************************************)
(* Go's strings package and fmt, on sequences of characters.               *)
(***************************************************************************)

\* s[from:] of Go (0-based from).
Drop(s, from) == SubSeq(s, from + 1, Len(s))

\* s[:to] of Go (0-based, exclusive to).
Take(s, to) == SubSeq(s, 1, to)

\* strings.HasPrefix(s[i:], sub), i 0-based.
HasAt(s, i, sub) ==
    /\ i + Len(sub) <= Len(s)
    /\ \A j \in 1..Len(sub) : s[i + j] = sub[j]

\* strings.Index: the 0-based position of the first occurrence, or -1.
Index(s, sub) ==
    IF \E i \in 0..Len(s) : HasAt(s, i, sub)
    THEN CHOOSE i \in 0..Len(s) :
            /\ HasAt(s, i, sub)
            /\ \A j \in 0..(i - 1) : ~HasAt(s, j, sub)
    ELSE -1

\* strings.Contains.
Contains(s, sub) == Index(s, sub) # -1

\* strings.ReplaceAll for a non-empty old: the non-overlapping occurrences of
\* old, found left to right in s, are replaced; the inserted text is not
\* searched again.
RECURSIVE ReplaceAll(_, _, _)
ReplaceAll(s, old, new) ==
    IF Len(old) = 0 \/ Len(s) < Len(old) THEN s
    ELSE IF HasAt(s, 0, old)
         THEN new \o ReplaceAll(Drop(s, Len(old)), old, new)
         ELSE <<s[1]>> \o ReplaceAll(Drop(s, 1), old, new)

\* unicode.IsSpace on the characters of the model.
IsSpace(c) == c \in {" ", "\t", "\n", "\r"}

RECURSIVE TrimLeftSpace(_)
TrimLeftSpace(s) ==
    IF Len(s) > 0 /\ IsSpace(s[1]) THEN TrimLeftSpace(Drop(s, 1)) ELSE s

RECURSIVE TrimRightSpace(_)
TrimRightSpace(s) ==
    IF Len(s) > 0 /\ IsSpace(s[Len(s)])
    THEN TrimRightSpace(Take(s, Len(s) - 1)) ELSE s

\* strings.TrimSpace.
TrimSpace(s) == TrimRightSpace(TrimLeftSpace(s))

RECURSIVE TrimLeftChar(_, _)
TrimLeftChar(s, c) ==
    IF Len(s) > 0 /\ s[1] = c THEN TrimLeftChar(Drop(s, 1), c) ELSE s

RECURSIVE TrimRightChar(_, _)
TrimRightChar(s, c) ==
    IF Len(s) > 0 /\ s[Len(s)] = c
    THEN TrimRightChar(Take(s, Len(s) - 1), c) ELSE s

\* strings.Trim(s, cutset) for a cutset of one character.
Trim(s, c) == TrimRightChar(TrimLeftChar(s, c), c)

UpperLetters ==
    <<"A", "B", "C", "D", "E", "F", "G", "H", "I", "J", "K", "L", "M",
      "N", "O", "P", "Q", "R", "S", "T", "U", "V", "W", "X", "Y", "Z">>

LowerLetters ==
    <<"a", "b", "c", "d", "e", "f", "g", "h", "i", "j", "k", "l", "m",
      "n", "o", "p", "q", "r", "s", "t", "u", "v", "w", "x", "y", "z">>

Digits == <<"0", "1", "2", "3", "4", "5", "6", "7", "8", "9">>

\* unicode.ToLower on one character.
LowerChar(c) ==
    IF \E i \in DOMAIN UpperLetters : UpperLetters[i] = c
    THEN LowerLetters[CHOOSE i \in DOMAIN UpperLetters : UpperLetters[i] = c]
    ELSE c

\* strings.ToLower.
ToLower(s) == [i \in 1..Len(s) |-> LowerChar(s[i])]

\* The decimal digits of a natural number, most significant first.
RECURSIVE NatDigits(_)
NatDigits(n) ==
    IF n < 10 THEN <<Digits[n + 1]>>
    ELSE NatDigits(n \div 10) \o <<Digits[(n % 10) + 1]>>

\* fmt.Sprint / fmt.Sprintf("%d") of an int: decimal, with a sign when negative.
Itoa(n) == IF n < 0 THEN <<"-">> \o NatDigits(0 - n) ELSE NatDigits(n)

\* strings.Join.
RECURSIVE Join(_, _)
Join(parts, sep) ==
    IF Len(parts) = 0 THEN <<>>
    ELSE IF Len(parts) = 1 THEN parts[1]
    ELSE parts[1] \o sep \o Join(Tail(parts), sep)

\* The loop `for strings.Contains(s, dbl) { s = strings.ReplaceAll(s, dbl, one) }`.
RECURSIVE Collapse(_, _, _)
Collapse(s, dbl, one) ==
    IF Contains(s, dbl) THEN Collapse(ReplaceAll(s, dbl, one), dbl, one) ELSE s

(***************************************************************************)
(* argPattern = regexp.MustCompile(`%[sdvqxXo]`) and its methods.          *)
(***************************************************************************)

Verbs == {"s", "d", "v", "q", "x", "X", "o"}

\* argPattern matches at the 0-based position i of s.
argPattern(s, i) == i + 2 <= Len(s) /\ s[i + 1] = "%" /\ s[i + 2] \in Verbs

\* FindAllStringIndex: the start positions of the leftmost non-overlapping
\* matches, searching from position i.
RECURSIVE FindAllIndex(_, _)
FindAllIndex(s, i) ==
    IF i >= Len(s) THEN <<>>
    ELSE IF argPattern(s, i) THEN <<i>> \o FindAllIndex(s, i + 2)
    ELSE FindAllIndex(s, i + 1)

\* argPattern.FindAllString(s, -1).
FindAllString(s) ==
    LET m == FindAllIndex(s, 0)
    IN  [k \in 1..Len(m) |-> SubSeq(s, m[k] + 1, m[k] + 2)]

\* The loop of regexp.Split over the matches, from match k with piece start beg.
RECURSIVE SplitFrom(_, _, _, _)
SplitFrom(s, m, k, beg) ==
    IF k > Len(m) THEN <<>>
    ELSE <<SubSeq(s, beg + 1, m[k])>> \o SplitFrom(s, m, k + 1, m[k] + 2)

\* argPattern.Split(s, -1): the empty string gives one empty piece; otherwise
\* the pieces before each match, then the rest unless the last match starts
\* at len(s) (which a two-character match never does).
Split(s) ==
    IF Len(s) = 0 THEN << <<>> >>
    ELSE LET m   == FindAllIndex(s, 0)
             end == IF Len(m) = 0 THEN 0 ELSE m[Len(m)]
             beg == IF Len(m) = 0 THEN 0 ELSE m[Len(m)] + 2
         IN  SplitFrom(s, m, 1, 0)
               \o (IF end # Len(s) THEN <<Drop(s, beg)>> ELSE <<>>)

(***************************************************************************)
(* slugify and normalize.                                                  *)
(***************************************************************************)

\* The cleaning of a part, were it not to lowercase the part first.
CleanPart_KeepCase(p) ==
    LET spaced == [i \in 1..Len(p) |->
                     IF \/ \E k \in DOMAIN LowerLetters : LowerLetters[k] = p[i]
                        \/ \E k \in DOMAIN Digits : Digits[k] = p[i]
                     THEN p[i] ELSE " "]
    IN  Collapse(TrimSpace(spaced), <<" ", " ">>, <<" ">>)

\* The cleaning of a part, were it to remove the punctuation rather than
\* turn it into spaces.
CleanPart_RemovePunctuation(p) ==
    LET lowered == ToLower(p)
        kept    == SelectSeq(lowered,
                     LAMBDA c : \/ \E k \in DOMAIN LowerLetters : LowerLetters[k] = c
                                \/ \E k \in DOMAIN Digits : Digits[k] = c
                                \/ c = " ")
    IN  Collapse(TrimSpace(kept), <<" ", " ">>, <<" ">>)

\* The body of slugify's loop for one literal part: lowercase, every rune
\* outside [a-z0-9] becomes a space, trim, collapse double spaces.
CleanPart(p) ==
    LET lowered == ToLower(p)
        spaced  == [i \in 1..Len(lowered) |->
                      IF \/ \E k \in DOMAIN LowerLetters : LowerLetters[k] = lowered[i]
                         \/ \E k \in DOMAIN Digits : Digits[k] = lowered[i]
                      THEN lowered[i] ELSE " "]
    IN  Collapse(TrimSpace(spaced), <<" ", " ">>, <<" ">>)

\* slugify's loop, were it to leave out the index of the last token.
RECURSIVE SlugPieces_DropLast(_, _, _)
SlugPieces_DropLast(parts, nmatches, i) ==
    IF i > Len(parts) THEN <<>>
    ELSE LET cleaned == IF parts[i] # <<>> THEN CleanPart(parts[i]) ELSE <<>>
             lit == IF cleaned # <<>>
                    THEN <<ReplaceAll(cleaned, <<" ">>, <<"-">>)>> ELSE <<>>
             idx == IF i < nmatches THEN <<Itoa(i - 1)>> ELSE <<>>
         IN  lit \o idx \o SlugPieces_DropLast(parts, nmatches, i + 1)

\* slugify's loop over the parts, from part i (1-based here, i-1 in the code).
RECURSIVE SlugPieces(_, _, _)
SlugPieces(parts, nmatches, i) ==
    IF i > Len(parts) THEN <<>>
    ELSE LET cleaned == IF parts[i] # <<>> THEN CleanPart(parts[i]) ELSE <<>>
             lit == IF cleaned # <<>>
                    THEN <<ReplaceAll(cleaned, <<" ">>, <<"-">>)>> ELSE <<>>
             idx == IF i - 1 < nmatches THEN <<Itoa(i - 1)>> ELSE <<>>
         IN  lit \o idx \o SlugPieces(parts, nmatches, i + 1)

slugify(format) ==
    LET parts   == Split(format)
        matches == FindAllString(format)
        out     == SlugPieces(parts, Len(matches), 1)
        key     == Collapse(Join(out, <<"-">>), <<"-", "-">>, <<"-">>)
    IN  Trim(key, "-")

\* argPattern.ReplaceAllStringFunc with the counting closure of normalize.
RECURSIVE NormalizeFrom(_, _, _)
NormalizeFrom(s, i, counter) ==
    IF i >= Len(s) THEN <<>>
    ELSE IF argPattern(s, i)
         THEN <<"{">> \o Itoa(counter) \o <<"}">> \o NormalizeFrom(s, i + 2, counter + 1)
         ELSE <<s[i + 1]>> \o NormalizeFrom(s, i + 1, counter)

\* normalize, were its counter to start at 1.
normalize_FromOne(format) ==
    [out |-> NormalizeFrom(format, 0, 1), matches |-> FindAllString(format)]

normalize(format) ==
    [out |-> NormalizeFrom(format, 0, 0), matches |-> FindAllString(format)]

(***************************************************************************)
(* The plural engine.                                                      *)
(***************************************************************************)

En == <<"e", "n">>
De == <<"d", "e">>
It == <<"i", "t">>
Es == <<"e", "s">>
Pt == <<"p", "t">>
Fr == <<"f", "r">>
Ru == <<"r", "u">>
Uk == <<"u", "k">>
Be == <<"b", "e">>
Pl == <<"p", "l">>
Ar == <<"a", "r">>

Zero  == <<"z", "e", "r", "o">>
One   == <<"o", "n", "e">>
Two   == <<"t", "w", "o">>
Few   == <<"f", "e", "w">>
Many  == <<"m", "a", "n", "y">>
Other == <<"o", "t", "h", "e", "r">>

\* determinePluralForm matching the locale without regard to case.
determinePluralForm_FoldCase(locale, count) ==
    LET l == ToLower(locale)
    IN  IF l \in {Ru, Uk, Be, Pl} THEN
            IF count = 0 THEN Zero
            ELSE IF count = 1 THEN One
            ELSE IF count >= 2 /\ count <= 4 THEN Few
            ELSE Many
        ELSE IF l = Ar THEN
            IF count = 0 THEN Zero
            ELSE IF count = 1 THEN One
            ELSE IF count = 2 THEN Two
            ELSE IF count >= 3 /\ count <= 10 THEN Few
            ELSE IF count >= 11 /\ count <= 99 THEN Many
            ELSE Other
        ELSE
            IF count = 0 THEN Zero ELSE IF count = 1 THEN One ELSE Other

determinePluralForm(locale, count) ==
    IF locale \in {En, De, It, Es, Pt} THEN
        IF count = 0 THEN Zero ELSE IF count = 1 THEN One ELSE Other
    ELSE IF locale = Fr THEN
        IF count = 0 THEN Zero ELSE IF count = 1 THEN One ELSE Other
    ELSE IF locale \in {Ru, Uk, Be} THEN
        IF count = 0 THEN Zero
        ELSE IF count = 1 THEN One
        ELSE IF count >= 2 /\ count <= 4 THEN Few
        ELSE Many
    ELSE IF locale = Pl THEN
        IF count = 0 THEN Zero
        ELSE IF count = 1 THEN One
        ELSE IF count >= 2 /\ count <= 4 THEN Few
        ELSE Many
    ELSE IF locale = Ar THEN
        IF count = 0 THEN Zero
        ELSE IF count = 1 THEN One
        ELSE IF count = 2 THEN Two
        ELSE IF count >= 3 /\ count <= 10 THEN Few
        ELSE IF count >= 11 /\ count <= 99 THEN Many
        ELSE Other
    ELSE
        IF count = 0 THEN Zero ELSE IF count = 1 THEN One ELSE Other

\* The brace-matching loop, were it to stop at the first close brace whatever
\* the depth.
RECURSIVE MatchEnd_FirstClose(_, _, _)
MatchEnd_FirstClose(content, i, braceCount) ==
    IF i >= Len(content) THEN 0
    ELSE IF content[i + 1] = "}" THEN i
    ELSE MatchEnd_FirstClose(content, i + 1, braceCount)

\* The brace-matching loop of extractPluralForm from the 0-based position i of
\* content with the given braceCount: the value of `end` when the loop stops,
\* which is still the initial 0 when the depth never returns to 0.
RECURSIVE MatchEnd(_, _, _)
MatchEnd(content, i, braceCount) ==
    IF i >= Len(content) THEN 0
    ELSE IF content[i + 1] = "{" THEN MatchEnd(content, i + 1, braceCount + 1)
    ELSE IF content[i + 1] = "}" THEN
        IF braceCount - 1 = 0 THEN i
        ELSE MatchEnd(content, i + 1, braceCount - 1)
    ELSE MatchEnd(content, i + 1, braceCount)

\* extractPluralForm without the final strings.TrimSpace.
extractPluralForm_NoTrim(template, form, count) ==
    LET start == form \o <<" ", "{">>
        idx   == Index(template, start)
    IN  IF idx = -1 THEN <<>>
        ELSE LET content == Drop(template, idx + Len(start))
                 end     == MatchEnd(content, 0, 1)
             IN  IF end = 0 THEN <<>>
                 ELSE ReplaceAll(Take(content, end), <<"#">>, Itoa(count))

\* extractPluralForm, were it to take the rest of the template when the
\* opening brace is never closed.
extractPluralForm_Unclosed(template, form, count) ==
    LET start == form \o <<" ", "{">>
        idx   == Index(template, start)
    IN  IF idx = -1 THEN <<>>
        ELSE LET content == Drop(template, idx + Len(start))
                 end     == MatchEnd(content, 0, 1)
             IN  TrimSpace(ReplaceAll(
                     IF end = 0 THEN content ELSE Take(content, end),
                     <<"#">>, Itoa(count)))

\* The not-found sentinel of extractPluralForm is the empty string.
extractPluralForm(template, form, count) ==
    LET start == form \o <<" ", "{">>
        idx   == Index(template, start)
    IN  IF idx = -1 THEN <<>>
        ELSE LET content == Drop(template, idx + Len(start))
                 end     == MatchEnd(content, 0, 1)
             IN  IF end = 0 THEN <<>>
                 ELSE TrimSpace(ReplaceAll(Take(content, end), <<"#">>, Itoa(count)))

(***************************************************************************)
(* The registry: dictionaries (language -> *Dictionary) and currentLang.   *)
(* fn is the TranslatedFunc most recently built by T, F, S or P, with the  *)
(* variables its closure captured; ret is what the call in progress has    *)
(* returned to its caller. files is the file system the loader reads and   *)
(* the extractor writes; mu holds the state of every sync.RWMutex and      *)
(* procs the position of every goroutine inside the call it is making.     *)
(***************************************************************************)
VARIABLES dictionaries, currentLang, fn, ret, files, mu, procs

\* What the translation functions and the registry operations leave alone.
aux == <<files, mu, procs>>

vars == <<dictionaries, currentLang, fn, ret, files, mu, procs>>

DefaultLang == En

\* The nil *Dictionary.
Nil == [nil |-> TRUE]

NoFn == [kind |-> "none"]

NoRet == [op |-> "none"]

NewDictionary(lang) == [Lang |-> lang, Translations |-> <<>>]

DefaultLanguage == currentLang

GetDictionary(lang) ==
    IF lang \in DOMAIN dictionaries THEN dictionaries[lang] ELSE Nil

\* Dictionary.Get without the fallback to the default-language dictionary.
Get_NoFallback(d, key) ==
    IF key \in DOMAIN d.Translations THEN d.Translations[key] ELSE key

\* Dictionary.Get falling back whatever the language of d is.
Get_AnyLang(d, key) ==
    IF key \in DOMAIN d.Translations THEN d.Translations[key]
    ELSE IF GetDictionary(DefaultLanguage) # Nil
              /\ GetDictionary(DefaultLanguage) # d
         THEN Get_NoFallback(GetDictionary(DefaultLanguage), key)
         ELSE key

\* Dictionary.Get. A dictionary is modelled by its value: where the code
\* compares the pointers defaultDict and d, d.Lang already differs from the
\* language defaultDict is registered under, so the two values differ too.
RECURSIVE Get(_, _)
Get(d, key) ==
    IF key \in DOMAIN d.Translations THEN d.Translations[key]
    ELSE IF d.Lang # DefaultLanguage
              /\ GetDictionary(DefaultLanguage) # Nil
              /\ GetDictionary(DefaultLanguage) # d
         THEN Get(GetDictionary(DefaultLanguage), key)
         ELSE key

(***************************************************************************)
(* Dictionary files. A TranslationFile is what json.Unmarshal leaves in    *)
(* the struct: Lang and Name are the empty string when the file has no     *)
(* such field, and Translations is the nil map when it has no translations *)
(* object: the record then has no Translations field. An error is modelled *)
(* by the check that raised it.                                            *)
(***************************************************************************)

\* tf.Translations == nil.
NilTranslations(tf) == "Translations" \notin DOMAIN tf

\* The nil error.
NoErr == "nil"

\* The rune U+00E9, which takes two bytes in a Go string.
EAcute == "e-acute"

\* len(s) of a Go string: its length in bytes.
RECURSIVE ByteLen(_)
ByteLen(s) ==
    IF s = <<>> THEN 0
    ELSE (IF Head(s) = EAcute THEN 2 ELSE 1) + ByteLen(Tail(s))

\* The brace loop of validatePluralTemplate counting only, without the test
\* for a closing brace that has no opening one before it.
RECURSIVE BraceCount_NoEarlyExit(_, _, _)
BraceCount_NoEarlyExit(template, i, braceCount) ==
    IF i > Len(template) THEN braceCount
    ELSE IF template[i] = "{"
         THEN BraceCount_NoEarlyExit(template, i + 1, braceCount + 1)
    ELSE IF template[i] = "}"
         THEN BraceCount_NoEarlyExit(template, i + 1, braceCount - 1)
    ELSE BraceCount_NoEarlyExit(template, i + 1, braceCount)

\* The brace loop of validatePluralTemplate from the 1-based position i: the
\* value of braceCount when the loop ends, -1 when it returned early because
\* braceCount went below 0.
RECURSIVE BraceCount(_, _, _)
BraceCount(template, i, braceCount) ==
    IF i > Len(template) THEN braceCount
    ELSE IF template[i] = "{" THEN BraceCount(template, i + 1, braceCount + 1)
    ELSE IF template[i] = "}"
         THEN IF braceCount - 1 < 0 THEN -1
              ELSE BraceCount(template, i + 1, braceCount - 1)
    ELSE BraceCount(template, i + 1, braceCount)

validForms == <<Zero, One, Two, Few, Many, Other>>

validatePluralTemplate(key, template) ==
    IF ~Contains(template,
                 <<"{", "c", "o", "u", "n", "t", ",", " ",
                   "p", "l", "u", "r", "a", "l">>)
    THEN NoErr
    ELSE IF BraceCount(template, 1, 0) < 0
         THEN "unbalanced braces: too many closing braces"
    ELSE IF BraceCount(template, 1, 0) # 0
         THEN "unbalanced braces: missing closing brace(s)"
    ELSE IF ~\E i \in 1..Len(validForms) :
                Contains(template, validForms[i] \o <<" ", "{">>)
         THEN "no valid plural forms found"
    ELSE NoErr

\* validateTranslationFile. The loop over the entries returns at the first
\* entry it finds at fault, in the order the map is iterated: an error is
\* returned exactly when some entry is at fault, and the three errors of the
\* loop are modelled as one.
validateTranslationFile(tf) ==
    IF tf.Lang = <<>> THEN "missing required 'meta.lang' field"
    ELSE IF tf.Name = <<>> THEN "missing required 'meta.name' field"
    ELSE IF ByteLen(tf.Lang) < 2 \/ ByteLen(tf.Lang) > 5
         THEN "invalid language code: must be 2-5 characters"
    ELSE IF \E i \in 1..Len(tf.Lang) :
               ~(\/ \E j \in 1..26 : tf.Lang[i] = LowerLetters[j]
                 \/ \E j \in 1..26 : tf.Lang[i] = UpperLetters[j]
                 \/ \E j \in 1..10 : tf.Lang[i] = Digits[j]
                 \/ tf.Lang[i] = "-")
         THEN "invalid language code: contains invalid character"
    ELSE IF NilTranslations(tf) THEN "missing 'translations' field"
    ELSE IF \E key \in DOMAIN tf.Translations :
               \/ key = <<>>
               \/ tf.Translations[key] = <<>>
               \/ validatePluralTemplate(key, tf.Translations[key]) # NoErr
         THEN "invalid translation"
    ELSE NoErr

(***************************************************************************)
(* The translation functions.                                              *)
(***************************************************************************)

\* fmt.Sprint of an argument: a string prints as itself, an int in decimal.
Sprint(arg) == IF "str" \in DOMAIN arg THEN arg.str ELSE Itoa(arg.int)

\* fmt.Sprintf("{%d}", i).
Placeholder(i) == <<"{">> \o Itoa(i) \o <<"}">>

\* The loop `for i, arg := range args` of T and F, from index i (0-based).
RECURSIVE SubstituteArgs(_, _, _)
SubstituteArgs(template, args, i) ==
    IF i >= Len(args) THEN template
    ELSE SubstituteArgs(ReplaceAll(template, Placeholder(i), Sprint(args[i + 1])),
                        args, i + 1)

\* T(key, args...): the closure captures key and args.
T(key, args) == [kind |-> "T", key |-> key, args |-> args]

\* F, were it to take the template from the default dictionary when the
\* closure is built rather than when it is called.
F_ResolvedWhenBuilt(format, args) ==
    [kind |-> "F", key |-> slugify(format),
     normalizedTemplate |->
        IF /\ currentLang \in DOMAIN dictionaries
           /\ slugify(format) \in DOMAIN dictionaries[currentLang].Translations
        THEN dictionaries[currentLang].Translations[slugify(format)]
        ELSE normalize(format).out,
     args |-> args, format |-> format]

\* F(format, args...): key and normalizedTemplate are computed when the
\* closure is built. format is kept only to state properties of the call.
F(format, args) ==
    [kind |-> "F", key |-> slugify(format),
     normalizedTemplate |-> normalize(format).out, args |-> args,
     format |-> format]

\* S(text): the closure captures key and text.
S(text) == [kind |-> "S", key |-> slugify(text), text |-> text]

\* P(key, count): the closure captures key and count.
P(key, count) == [kind |-> "P", key |-> key, count |-> count]

CountMarker == <<"{", "c", "o", "u", "n", "t", "}">>

PluralMarker ==
    <<"{", "c", "o", "u", "n", "t", ",", " ", "p", "l", "u", "r", "a", "l">>

\* The closure of T, were it to retry in the default dictionary whenever the
\* locale's dictionary gives nothing usable, as the closure of S does.
InvokeT_RetryDefault(f, locale) ==
    LET dict        == GetDictionary(locale)
        defaultDict == GetDictionary(DefaultLanguage)
        template    ==
            IF dict # Nil /\ Get(dict, f.key) # <<>> /\ Get(dict, f.key) # f.key
            THEN Get(dict, f.key)
            ELSE IF /\ defaultDict # Nil
                    /\ f.key \in DOMAIN defaultDict.Translations
                    /\ defaultDict.Translations[f.key] # <<>>
                    /\ defaultDict.Translations[f.key] # f.key
            THEN defaultDict.Translations[f.key]
            ELSE f.key
    IN  SubstituteArgs(template, f.args, 0)

\* The body of the closure T returns.
InvokeT(f, locale) ==
    LET dict        == GetDictionary(locale)
        defaultDict == GetDictionary(DefaultLanguage)
        template    ==
            IF dict # Nil THEN
                IF Get(dict, f.key) # <<>> /\ Get(dict, f.key) # f.key
                THEN Get(dict, f.key) ELSE f.key
            ELSE IF defaultDict # Nil THEN
                IF Get(defaultDict, f.key) # <<>> /\ Get(defaultDict, f.key) # f.key
                THEN Get(defaultDict, f.key) ELSE f.key
            ELSE f.key
    IN  SubstituteArgs(template, f.args, 0)

\* The closure of F, were it to skip the default dictionary when the locale
\* has no dictionary.
InvokeF_NoDefault(f, locale) ==
    LET dict     == GetDictionary(locale)
        template ==
            IF dict # Nil THEN
                IF Get(dict, f.key) # <<>> /\ Get(dict, f.key) # f.key
                THEN Get(dict, f.key) ELSE f.normalizedTemplate
            ELSE f.normalizedTemplate
    IN  SubstituteArgs(template, f.args, 0)

\* The body of the closure F returns.
InvokeF(f, locale) ==
    LET dict        == GetDictionary(locale)
        defaultDict == GetDictionary(DefaultLanguage)
        template    ==
            IF dict # Nil THEN
                IF Get(dict, f.key) # <<>> /\ Get(dict, f.key) # f.key
                THEN Get(dict, f.key) ELSE f.normalizedTemplate
            ELSE IF defaultDict # Nil THEN
                IF Get(defaultDict, f.key) # <<>> /\ Get(defaultDict, f.key) # f.key
                THEN Get(defaultDict, f.key) ELSE f.normalizedTemplate
            ELSE f.normalizedTemplate
    IN  SubstituteArgs(template, f.args, 0)

\* The closure of S, were it to return the derived key when nothing is found.
InvokeS_ReturnsKey(f, locale) ==
    LET dict        == GetDictionary(locale)
        defaultDict == GetDictionary(DefaultLanguage)
    IN  IF dict # Nil /\ Get(dict, f.key) # <<>> /\ Get(dict, f.key) # f.key
        THEN Get(dict, f.key)
        ELSE IF /\ defaultDict # Nil
                /\ Get(defaultDict, f.key) # <<>>
                /\ Get(defaultDict, f.key) # f.key
        THEN Get(defaultDict, f.key)
        ELSE f.key

\* The closure of S, were it to look in the locale's dictionary only.
InvokeS_NoDefault(f, locale) ==
    LET dict == GetDictionary(locale)
    IN  IF dict # Nil /\ Get(dict, f.key) # <<>> /\ Get(dict, f.key) # f.key
        THEN Get(dict, f.key)
        ELSE f.text

\* The body of the closure S returns.
InvokeS(f, locale) ==
    LET dict        == GetDictionary(locale)
        defaultDict == GetDictionary(DefaultLanguage)
    IN  IF dict # Nil /\ Get(dict, f.key) # <<>> /\ Get(dict, f.key) # f.key
        THEN Get(dict, f.key)
        ELSE IF /\ defaultDict # Nil
                /\ Get(defaultDict, f.key) # <<>>
                /\ Get(defaultDict, f.key) # f.key
        THEN Get(defaultDict, f.key)
        ELSE f.text

\* The closure of P, were it to skip the retry with the category other.
InvokeP_NoOther(f, locale) ==
    LET dict        == GetDictionary(locale)
        defaultDict == GetDictionary(DefaultLanguage)
        template    == IF dict # Nil THEN Get(dict, f.key)
                       ELSE IF defaultDict # Nil THEN Get(defaultDict, f.key)
                       ELSE f.key
        form        == determinePluralForm(locale, f.count)
    IN  IF /\ Contains(template, PluralMarker)
           /\ extractPluralForm(template, form, f.count) # <<>>
        THEN extractPluralForm(template, form, f.count)
        ELSE ReplaceAll(template, CountMarker, Itoa(f.count))

\* The body of the closure P returns.
InvokeP(f, locale) ==
    LET dict        == GetDictionary(locale)
        defaultDict == GetDictionary(DefaultLanguage)
        template    == IF dict # Nil THEN Get(dict, f.key)
                       ELSE IF defaultDict # Nil THEN Get(defaultDict, f.key)
                       ELSE f.key
        form        == determinePluralForm(locale, f.count)
    IN  IF /\ Contains(template, PluralMarker)
           /\ extractPluralForm(template, form, f.count) # <<>>
        THEN extractPluralForm(template, form, f.count)
        ELSE IF /\ Contains(template, PluralMarker)
                /\ form # Other
                /\ extractPluralForm(template, Other, f.count) # <<>>
        THEN extractPluralForm(template, Other, f.count)
        ELSE ReplaceAll(template, CountMarker, Itoa(f.count))

\* Calling a TranslatedFunc with a locale.
Invoke(f, locale) ==
    IF f.kind = "T" THEN InvokeT(f, locale)
    ELSE IF f.kind = "F" THEN InvokeF(f, locale)
    ELSE IF f.kind = "S" THEN InvokeS(f, locale)
    ELSE InvokeP(f, locale)

\* R, were it to return the derived key when nothing is found.
R_ReturnsKey(locale, text) ==
    LET key         == slugify(text)
        dict        == GetDictionary(locale)
        defaultDict == GetDictionary(DefaultLanguage)
    IN  IF dict # Nil /\ Get(dict, key) # <<>> /\ Get(dict, key) # key
        THEN Get(dict, key)
        ELSE IF /\ defaultDict # Nil
                /\ Get(defaultDict, key) # <<>>
                /\ Get(defaultDict, key) # key
        THEN Get(defaultDict, key)
        ELSE key

\* R(locale, text).
R(locale, text) ==
    LET key         == slugify(text)
        dict        == GetDictionary(locale)
        defaultDict == GetDictionary(DefaultLanguage)
    IN  IF dict # Nil /\ Get(dict, key) # <<>> /\ Get(dict, key) # key
        THEN Get(dict, key)
        ELSE IF /\ defaultDict # Nil
                /\ Get(defaultDict, key) # <<>>
                /\ Get(defaultDict, key) # key
        THEN Get(defaultDict, key)
        ELSE text

(***************************************************************************)
(* The inputs the operations are called with.                              *)
(***************************************************************************)

\* The languages dictionaries are registered under, and the default language
\* is set to.
Langs == {En, Fr}

\* The locales a TranslatedFunc or R is called with; no dictionary is ever
\* registered for Ru.
Locales == {En, Fr, Ru}

\* The key of the text "Hi"; no translation is ever added under it.
KeyHi ==
    <<"h", "i">>

\* The key of the format "Hi %s", under which translations are added.
KeyHi0 ==
    <<"h", "i", "-", "0">>

\* The keys translations are added under.
Keys == {KeyHi0}

\* The keys T and P are called with.
CallKeys == {KeyHi0, KeyHi}

\* A template with two numbered placeholders.
TplArgs ==
    <<"{", "0", "}", "/", "{", "1", "}">>

\* A template without the plural marker.
TplCount ==
    <<"{", "c", "o", "u", "n", "t", "}", " ", "o", "f", " ", "{", "0", "}">>

\* A plural template with the zero, one and other categories.
PlStd ==
    <<"{", "c", "o", "u", "n", "t", ",", " ", "p", "l", "u", "r", "a", "l",
      ",", " ", "z", "e", "r", "o", " ", "{", "n", "o", "}", " ", "o", "n",
      "e", " ", "{", "#", " ", "i", "}", " ", "o", "t", "h", "e", "r", " ",
      "{", "#", " ", "i", "s", "}", "}">>

\* A plural template with padded, empty and blank sub-templates and no other.
PlPad ==
    <<"{", "c", "o", "u", "n", "t", ",", " ", "p", "l", "u", "r", "a", "l",
      ",", " ", "z", "e", "r", "o", " ", "{", "}", " ", "o", "n", "e", " ",
      "{", " ", "#", "i", "\t", "}", " ", "f", "e", "w", " ", "{", " ", "}",
      "}", " ", "{", "c", "o", "u", "n", "t", "}">>

\* A plural template with nested braces, and whose last brace is never closed.
PlNest ==
    <<"{", "c", "o", "u", "n", "t", ",", " ", "p", "l", "u", "r", "a", "l",
      ",", " ", "o", "t", "h", "e", "r", " ", "{", "{", "c", "o", "u", "n",
      "t", "}", " ", "#", "{", "0", "}", "}", " ", "o", "n", "e", " ", "{",
      "#", " ", "i">>

\* The values a translation is added with: among them the empty string, the
\* key itself and a text without placeholders.
Values == {<<>>, KeyHi, KeyHi0, TplArgs, TplCount, PlStd, PlPad, PlNest}

TxHi ==
    <<"H", "i">>

TxHiS ==
    <<"H", "i", " ", "%", "s">>

TxTwo ==
    <<"%", "s", "+", "%", "d">>

\* The texts and formats F, S and R are called with.
Texts == {TxHi, TxHiS, TxTwo}

\* The arguments of T and F: a string that reads as a placeholder, and an int.
ArgVals == {[str |-> <<"{", "1", "}">>], [int |-> 5]}

\* The dictionaries a caller has built with NewDictionary and Add and holds
\* a pointer to, whether registered or not.
Held ==
    {[Lang |-> lang, Translations |-> t] :
        lang \in Langs, t \in {<<>>, KeyHi0 :> KeyHi}}

MaxArgs == 2

MaxCount == 5

RECURSIVE SeqsUpTo(_, _)
SeqsUpTo(set, n) ==
    IF n = 0 THEN {<<>>}
    ELSE LET shorter == SeqsUpTo(set, n - 1)
         IN  shorter \cup {Append(q, x) : q \in shorter, x \in set}

ArgLists == SeqsUpTo(ArgVals, MaxArgs)

Counts == {-1} \cup (0..MaxCount)

(***************************************************************************)
(* The operations.                                                         *)
(***************************************************************************)

Init ==
    /\ dictionaries = <<>>
    /\ currentLang = DefaultLang
    /\ fn = NoFn
    /\ ret = NoRet
    /\ files = <<>>
    /\ mu = <<>>
    /\ procs = <<>>

\* SetDefaultLanguage(lang).
SetDefaultLanguage(lang) ==
    /\ ret = NoRet
    /\ currentLang' = lang
    /\ UNCHANGED <<dictionaries, fn, ret, aux>>

\* Register merging the entries of the dictionary it replaces into dict.
Register_Merge(dict) ==
    /\ ret = NoRet
    /\ dictionaries' =
         (dict.Lang :>
            IF dict.Lang \in DOMAIN dictionaries
            THEN [dict EXCEPT !.Translations =
                                 @ @@ dictionaries[dict.Lang].Translations]
            ELSE dict) @@ dictionaries
    /\ ret' = [op |-> "Register", dict |-> dict,
               replaced |-> GetDictionary(dict.Lang)]
    /\ UNCHANGED <<currentLang, fn, aux>>

\* Register(dict): the dictionary replaces the one registered under its Lang,
\* if any.
Register(dict) ==
    /\ ret = NoRet
    /\ dictionaries' = (dict.Lang :> dict) @@ dictionaries
    /\ ret' = [op |-> "Register", dict |-> dict,
               replaced |-> GetDictionary(dict.Lang)]
    /\ UNCHANGED <<currentLang, fn, aux>>

\* d.Add(key, value) on the dictionary registered under lang.
Add(lang, key, value) ==
    /\ ret = NoRet
    /\ lang \in DOMAIN dictionaries
    /\ dictionaries' =
         [dictionaries EXCEPT ![lang].Translations = (key :> value) @@ @]
    /\ UNCHANGED <<currentLang, fn, ret, aux>>

\* d.Get(key), on a dictionary the caller holds a pointer to.
CallGet(d, key) ==
    /\ ret = NoRet
    /\ ret' = [op |-> "Get", d |-> d, key |-> key, result |-> Get(d, key)]
    /\ UNCHANGED <<dictionaries, currentLang, fn, aux>>

\* GetDictionary(lang).
CallGetDictionary(lang) ==
    /\ ret = NoRet
    /\ ret' = [op |-> "GetDictionary", lang |-> lang,
               result |-> GetDictionary(lang)]
    /\ UNCHANGED <<dictionaries, currentLang, fn, aux>>

\* T(key, args...)(locale).
CallT(key, args, locale) ==
    /\ ret = NoRet
    /\ fn' = T(key, args)
    /\ ret' = [op |-> "T", locale |-> locale, result |-> Invoke(fn', locale)]
    /\ UNCHANGED <<dictionaries, currentLang, aux>>

\* F(format, args...)(locale).
CallF(format, args, locale) ==
    /\ ret = NoRet
    /\ fn' = F(format, args)
    /\ ret' = [op |-> "F", locale |-> locale, result |-> Invoke(fn', locale)]
    /\ UNCHANGED <<dictionaries, currentLang, aux>>

\* S(text)(locale).
CallS(text, locale) ==
    /\ ret = NoRet
    /\ fn' = S(text)
    /\ ret' = [op |-> "S", locale |-> locale, result |-> Invoke(fn', locale)]
    /\ UNCHANGED <<dictionaries, currentLang, aux>>

\* P(key, count)(locale).
CallP(key, count, locale) ==
    /\ ret = NoRet
    /\ fn' = P(key, count)
    /\ ret' = [op |-> "P", locale |-> locale, result |-> Invoke(fn', locale)]
    /\ UNCHANGED <<dictionaries, currentLang, aux>>

\* R(locale, text).
CallR(locale, text) ==
    /\ ret = NoRet
    /\ ret' = [op |-> "R", locale |-> locale, text |-> text,
               result |-> R(locale, text)]
    /\ UNCHANGED <<dictionaries, currentLang, fn, aux>>

\* The caller takes the returned string and drops the TranslatedFunc.
Return ==
    /\ ret # NoRet
    /\ ret' = NoRet
    /\ fn' = NoFn
    /\ UNCHANGED <<dictionaries, currentLang, aux>>

Next ==
    \/ \E lang \in Langs : SetDefaultLanguage(lang)
    \/ \E dict \in Held : Register(dict)
    \/ \E d \in Held \cup {dictionaries[l] : l \in DOMAIN dictionaries},
          key \in CallKeys : CallGet(d, key)
    \/ \E lang \in Locales : CallGetDictionary(lang)
    \/ \E lang \in Langs, key \in Keys, value \in Values : Add(lang, key, value)
    \/ \E key \in CallKeys, args \in ArgLists, locale \in Locales :
          CallT(key, args, locale)
    \/ \E format \in Texts, args \in ArgLists, locale \in Locales :
          CallF(format, args, locale)
    \/ \E text \in Texts, locale \in Locales : CallS(text, locale)
    \/ \E key \in CallKeys, count \in Counts, locale \in Locales :
          CallP(key, count, locale)
    \/ \E locale \in Locales, text \in Texts : CallR(locale, text)
    \/ Return

Spec == Init /\ [][Next]_vars

(***************************************************************************)
(* A TranslatedFunc kept by its caller: built once, then called again and  *)
(* again while the registry changes. fn then holds the function as f, and  *)
(* as made the registry and the default language when it was built, kept   *)
(* only to state properties.                                               *)
(***************************************************************************)

\* fn := T(...), F(...), S(...) or P(...).
MakeFn(f) ==
    /\ ret = NoRet
    /\ fn = NoFn
    /\ fn' = [kind |-> "kept", f |-> f,
               made |-> [dictionaries |-> dictionaries,
                         currentLang |-> currentLang]]
    /\ UNCHANGED <<dictionaries, currentLang, ret, aux>>

\* fn(locale).
CallFn(locale) ==
    /\ fn # NoFn
    /\ ret = NoRet \/ ret.op = "fn"
    /\ ret' = [op |-> "fn", locale |-> locale,
               result |-> Invoke(fn.f, locale)]
    /\ UNCHANGED <<dictionaries, currentLang, fn, aux>>

\* The caller takes what the call returned and keeps the TranslatedFunc.
KeepFn ==
    /\ ret # NoRet
    /\ ret' = NoRet
    /\ UNCHANGED <<dictionaries, currentLang, fn, aux>>

LateNext ==
    \/ \E f \in {T(KeyHi0, <<[int |-> 5]>>), F(TxHiS, <<[int |-> 5]>>),
                 S(TxHiS), P(KeyHi0, 2)} : MakeFn(f)
    \/ \E locale \in Locales : CallFn(locale)
    \/ KeepFn
    \/ Return
    \/ \E lang \in Langs : SetDefaultLanguage(lang)
    \/ \E dict \in Held : Register(dict)
    \/ \E lang \in Langs : Add(lang, KeyHi0, TplArgs)

LateSpec == Init /\ [][LateNext]_vars

(***************************************************************************)
(* validateTranslationFile on its own.                                     *)
(***************************************************************************)

\* The values of meta.lang: absent, too short, too long, of 2 and of 5
\* characters, with a character that is not allowed, and with a rune of two
\* bytes.
LangCodes ==
    {<<>>, <<"e">>, En, Fr, <<"E", "N">>, <<"e", "1">>,
     <<"e", "n", "-", "U", "S">>, <<"e", "n", "_", "U", "S">>,
     <<"e", "n", "@", "U", "S">>, <<"z", "h", "-", "H", "a", "n">>,
     <<"-", "-">>, <<EAcute>>, <<"a", EAcute>>}

\* The values of meta.name.
Names == {<<>>, <<"d", "e", "f", "a", "u", "l", "t">>}

\* A plural template with one closing brace too many at its end.
PlExtraClose ==
    <<"{", "c", "o", "u", "n", "t", ",", " ", "p", "l", "u", "r", "a", "l",
      ",", " ", "o", "n", "e", " ", "{", "#", " ", "i", "}", "}", "}">>

\* A plural template with as many closing as opening braces, the first
\* closing one before any opening one.
PlCloseFirst ==
    <<"}", "{", "c", "o", "u", "n", "t", ",", " ", "p", "l", "u", "r", "a",
      "l", ",", " ", "o", "n", "e", " ", "{", "#", " ", "i", "}">>

\* A plural template without any of the six categories.
PlNoForm ==
    <<"{", "c", "o", "u", "n", "t", ",", " ", "p", "l", "u", "r", "a", "l",
      ",", " ", "=", "1", " ", "{", "#", " ", "i", "}", "}">>

\* A plural template whose category has no space before its brace.
PlNoSpace ==
    <<"{", "c", "o", "u", "n", "t", ",", " ", "p", "l", "u", "r", "a", "l",
      ",", " ", "o", "n", "e", "{", "#", " ", "i", "}", "}">>

\* A text with an open brace and without the plural marker.
TxOpenBrace ==
    <<"H", "i", " ", "{", "0">>

\* The translations objects of a file: the empty one, and objects of one entry
\* and of two.
TranslationMaps ==
    {<<>>, <<>> :> TxHi, KeyHi :> TxHi @@ <<>> :> TxHi,
     KeyHi :> TxHi @@ KeyHi0 :> <<>>, KeyHi :> TxHi @@ KeyHi0 :> PlNest}
    \cup {KeyHi0 :> value :
            value \in Values \cup {PlExtraClose, PlCloseFirst, PlNoForm,
                                   PlNoSpace, TxOpenBrace}}

\* The files validateTranslationFile is called with.
\* The files validateTranslationFile is called with, with a translations
\* object and without one.
TranslationFiles ==
    {[Lang |-> lang, Name |-> name, Translations |-> t] :
        lang \in LangCodes, name \in Names, t \in TranslationMaps}
    \cup {[Lang |-> lang, Name |-> name] : lang \in LangCodes, name \in Names}

\* validateTranslationFile(tf).
CallValidateTranslationFile(tf) ==
    /\ ret = NoRet
    /\ ret' = [op |-> "validateTranslationFile", tf |-> tf,
               err |-> validateTranslationFile(tf)]
    /\ UNCHANGED <<dictionaries, currentLang, fn, aux>>

ValidateNext ==
    \/ \E tf \in TranslationFiles : CallValidateTranslationFile(tf)
    \/ Return

ValidateSpec == Init /\ [][ValidateNext]_vars

(***************************************************************************)
(* slugify, normalize and extractPluralForm on their own.                  *)
(***************************************************************************)

\* The longest format slugify and normalize are called with.
MaxFormatLen == 4

\* The formats: every string of a few characters among a percent sign, two
\* verbs, of which one is an upper-case letter, a letter that is no verb, a
\* digit, a space and a dash.
Formats == SeqsUpTo({"%", "s", "X", "A", "1", " ", "-"}, MaxFormatLen)

\* The largest number of pieces a plural template is made of.
MaxTemplateLen == 5

\* The templates: every string made of a few pieces among the opening of
\* the category one, a brace of either kind, the number sign, a space and
\* a letter.
PluralTemplates ==
    {Join(pieces, <<>>) :
        pieces \in SeqsUpTo({<<"o", "n", "e", " ", "{">>, <<"{">>, <<"}">>,
                             <<"#">>, <<" ">>, <<"a">>}, MaxTemplateLen)}

\* slugify(format).
CallSlugify(format) ==
    /\ ret = NoRet
    /\ ret' = [op |-> "slugify", format |-> format, result |-> slugify(format)]
    /\ UNCHANGED <<dictionaries, currentLang, fn, aux>>

\* normalize(format).
CallNormalize(format) ==
    /\ ret = NoRet
    /\ ret' = [op |-> "normalize", format |-> format,
               out |-> normalize(format).out,
               matches |-> normalize(format).matches]
    /\ UNCHANGED <<dictionaries, currentLang, fn, aux>>

\* extractPluralForm(template, form, count).
CallExtractPluralForm(template, form, count) ==
    /\ ret = NoRet
    /\ ret' = [op |-> "extractPluralForm", template |-> template,
               form |-> form, count |-> count,
               result |-> extractPluralForm(template, form, count)]
    /\ UNCHANGED <<dictionaries, currentLang, fn, aux>>

PureNext ==
    \/ /\ ret = NoRet
       /\ \E format \in Formats : CallSlugify(format)
    \/ /\ ret = NoRet
       /\ \E format \in Formats : CallNormalize(format)
    \/ /\ ret = NoRet
       /\ \E template \in PluralTemplates, form \in {One, Few},
             count \in {-1, 12} :
             CallExtractPluralForm(template, form, count)
    \/ Return

PureSpec == Init /\ [][PureNext]_vars

(***************************************************************************)
(* The file system, the loader and the extractor. A file holds a JSON      *)
(* document, modelled by its tree of members, or text that is no JSON.     *)
(* A source tree is the sequence of the directory entries filepath.Walk    *)
(* visits, in its order; a Go file is the sequence of the call expressions *)
(* ast.Inspect visits, in its order.                                       *)
(***************************************************************************)

DefaultDictionary ==
    <<"d", "e", "f", "a", "u", "l", "t">>

DefaultFolder ==
    <<"l", "o", "c", "a", "l", "e", "s">>

DefaultFilePath ==
    <<"l", "o", "c", "a", "l", "e", "s", "/", "d", "e", "f", "a", "u", "l",
      "t", ".", "e", "n", ".", "j", "s", "o", "n">>

\* filepath.Join(DefaultFolder, fmt.Sprintf("%s.%s.json", DefaultDictionary,
\* lang)).
DefaultPath(lang) ==
    DefaultFolder \o <<"/">> \o DefaultDictionary \o <<".">> \o lang
        \o <<".", "j", "s", "o", "n">>

\* The content of a file json.Unmarshal fails on.
Malformed == [malformed |-> TRUE]

\* json.MarshalIndent of a TranslationFile: lang and name are always written,
\* the other members of meta are omitted when empty.
Marshal(tf) ==
    [meta |-> [lang |-> tf.Lang, name |-> tf.Name],
     translations |-> tf.Translations]

\* json.Unmarshal into a TranslationFile: a member the document lacks leaves
\* its field at the zero value.
Unmarshal(doc) ==
    LET meta == IF "meta" \in DOMAIN doc THEN doc.meta ELSE <<>>
        lang == IF "lang" \in DOMAIN meta THEN meta.lang ELSE <<>>
        name == IF "name" \in DOMAIN meta THEN meta.name ELSE <<>>
    IN  IF "translations" \in DOMAIN doc
        THEN [Lang |-> lang, Name |-> name, Translations |-> doc.translations]
        ELSE [Lang |-> lang, Name |-> name]

\* d.AddAll(translations) on a dictionary value.
AddAll(d, translations) ==
    [d EXCEPT !.Translations = translations @@ @]

\* LoadDictionaryFile(path): the error, and the dictionary when there is none.
LoadDictionaryFile(path) ==
    IF path \notin DOMAIN files THEN [err |-> "failed to read file"]
    ELSE IF files[path] = Malformed THEN [err |-> "invalid translation file"]
    ELSE LET tf == Unmarshal(files[path])
         IN  IF validateTranslationFile(tf) # NoErr
             THEN [err |-> "validation failed"]
             ELSE [err |-> NoErr,
                   dict |-> AddAll(NewDictionary(tf.Lang), tf.Translations)]

\* LoadFrom registering whatever json.Unmarshal has read, before validation.
LoadFrom_RegisterUnvalidated(path) ==
    /\ ret = NoRet
    /\ LET res == LoadDictionaryFile(path)
       IN  /\ ret' = [op |-> "LoadFrom", path |-> path, err |-> res.err]
           /\ dictionaries' =
                IF res.err = NoErr
                THEN (res.dict.Lang :> res.dict) @@ dictionaries
                ELSE IF path \in DOMAIN files /\ files[path] # Malformed
                          /\ ~NilTranslations(Unmarshal(files[path]))
                THEN LET tf == Unmarshal(files[path])
                     IN  (tf.Lang :> AddAll(NewDictionary(tf.Lang),
                                            tf.Translations)) @@ dictionaries
                ELSE dictionaries
    /\ UNCHANGED <<currentLang, fn, aux>>

\* LoadFrom(path).
LoadFrom(path) ==
    /\ ret = NoRet
    /\ LET res == LoadDictionaryFile(path)
       IN  /\ ret' = [op |-> "LoadFrom", path |-> path, err |-> res.err]
           /\ dictionaries' =
                IF res.err # NoErr THEN dictionaries
                ELSE (res.dict.Lang :> res.dict) @@ dictionaries
    /\ UNCHANGED <<currentLang, fn, aux>>

\* Load().
Load == LoadFrom(DefaultFilePath)

\* LoadLanguage(lang).
LoadLanguage(lang) == LoadFrom(DefaultPath(lang))

\* The character U+0060, which opens and closes a raw string literal.
BackQuote == "U+0060"

\* The first argument of the call is a token of kind STRING whose text is
\* value; the text is returned without its two double quotes when it has
\* them.
RawOf(value) ==
    IF Len(value) >= 2 /\ value[1] = "\"" /\ value[Len(value)] = "\""
    THEN SubSeq(value, 2, Len(value) - 1)
    ELSE value

\* The function literal given to ast.Inspect, on one call expression: whether
\* it reaches the assignment to results.
Extracted(call) ==
    /\ call.sel
    /\ call.pkg = "i18n"
    /\ call.fun \in {"F", "S", "T", "P"}
    /\ Len(call.args) # 0
    /\ call.args[1].kind = "STRING"

\* ast.Inspect over the calls of one file, from the i-th on.
RECURSIVE InspectFrom(_, _, _)
InspectFrom(calls, i, results) ==
    IF i > Len(calls) THEN results
    ELSE IF Extracted(calls[i])
         THEN LET raw == RawOf(calls[i].args[1].value)
              IN  InspectFrom(calls, i + 1, (slugify(raw) :> raw) @@ results)
         ELSE InspectFrom(calls, i + 1, results)

\* filepath.Walk with calls of files that do not parse extracted all the same.
RECURSIVE WalkFrom_KeepUnparsed(_, _, _)
WalkFrom_KeepUnparsed(root, i, results) ==
    IF i > Len(root) THEN results
    ELSE IF root[i].dir \/ root[i].ext # ".go"
         THEN WalkFrom_KeepUnparsed(root, i + 1, results)
         ELSE WalkFrom_KeepUnparsed(root, i + 1,
                                    InspectFrom(root[i].calls, 1, results))

\* filepath.Walk over the entries under root, from the i-th on.
RECURSIVE WalkFrom(_, _, _)
WalkFrom(root, i, results) ==
    IF i > Len(root) THEN results
    ELSE IF root[i].dir \/ root[i].ext # ".go"
         THEN WalkFrom(root, i + 1, results)
    ELSE IF ~root[i].parses THEN WalkFrom(root, i + 1, results)
    ELSE WalkFrom(root, i + 1, InspectFrom(root[i].calls, 1, results))

\* GenerateTranslations(locale, root, outputPath). writable tells whether the
\* file system lets the output directory and file be created.
GenerateTranslations(locale, root, outputPath, writable) ==
    /\ ret = NoRet
    /\ LET results == WalkFrom(root, 1, <<>>)
           path    == IF outputPath = <<>> THEN DefaultPath(locale)
                      ELSE outputPath
           tf      == [Lang |-> locale, Name |-> DefaultDictionary,
                       Translations |-> results]
           err     == IF DOMAIN results = {} THEN NoErr
                      ELSE IF ~writable THEN "failed to save dictionary"
                      ELSE NoErr
       IN  /\ ret' = [op |-> "GenerateTranslations", locale |-> locale,
                      root |-> root, path |-> path, writable |-> writable,
                      err |-> err]
           /\ files' = IF DOMAIN results = {} \/ ~writable THEN files
                       ELSE (path :> Marshal(tf)) @@ files
    /\ UNCHANGED <<dictionaries, currentLang, fn, mu, procs>>

\* A file written by hand.
WriteFile(path, doc) ==
    /\ ret = NoRet
    /\ files' = (path :> doc) @@ files
    /\ UNCHANGED <<dictionaries, currentLang, fn, ret, mu, procs>>

\* The Go file of the README: i18n.F("Hello %s", "World"),
\* i18n.S("Dashboard"), i18n.T("goodbye").
ReadmeGo ==
    [dir |-> FALSE, ext |-> ".go", parses |-> TRUE,
     calls |-> <<
      [sel |-> TRUE, pkg |-> "i18n", fun |-> "F",
       args |-> <<[kind |-> "STRING",
                   value |-> <<"\"", "H", "e", "l", "l", "o", " ", "%", "s",
                               "\"">>],
                  [kind |-> "STRING",
                   value |-> <<"\"", "W", "o", "r", "l", "d", "\"">>]>>],
      [sel |-> TRUE, pkg |-> "i18n", fun |-> "S",
       args |-> <<[kind |-> "STRING", value |-> <<"\"", "D", "a", "s", "h", "b", "o", "a",
                                "r", "d", "\"">>]>>],
      [sel |-> TRUE, pkg |-> "i18n", fun |-> "T",
       args |-> <<[kind |-> "STRING", value |-> <<"\"", "g", "o", "o", "d", "b", "y", "e",
                                "\"">>]>>]>>]

\* A Go file with a syntax error after the call i18n.S("Hi").
BrokenGo ==
    [dir |-> FALSE, ext |-> ".go", parses |-> FALSE,
     calls |-> <<
      [sel |-> TRUE, pkg |-> "i18n", fun |-> "S",
       args |-> <<[kind |-> "STRING", value |-> <<"\"", "H", "i", "\"">>]>>]>>]

\* A Go file with i18n.S("hi"), i18n.S("Hi"), i18n.S(variable),
\* fmt.Printf("No"), other.F("No"), i18n.R("en", "No"), i18n.P(5), i18n.S()
\* and T("No").
ComplexGo ==
    [dir |-> FALSE, ext |-> ".go", parses |-> TRUE,
     calls |-> <<
      [sel |-> TRUE, pkg |-> "i18n", fun |-> "S",
       args |-> <<[kind |-> "STRING", value |-> <<"\"", "h", "i", "\"">>]>>],
      [sel |-> TRUE, pkg |-> "i18n", fun |-> "S",
       args |-> <<[kind |-> "STRING", value |-> <<"\"", "H", "i", "\"">>]>>],
      [sel |-> TRUE, pkg |-> "i18n", fun |-> "S",
       args |-> <<[kind |-> "IDENT", value |-> <<"v", "a", "r", "i", "a", "b", "l", "e">>]>>],
      [sel |-> TRUE, pkg |-> "fmt", fun |-> "Printf",
       args |-> <<[kind |-> "STRING", value |-> <<"\"", "N", "o", "\"">>]>>],
      [sel |-> TRUE, pkg |-> "other", fun |-> "F",
       args |-> <<[kind |-> "STRING", value |-> <<"\"", "N", "o", "\"">>]>>],
      [sel |-> TRUE, pkg |-> "i18n", fun |-> "R",
       args |-> <<[kind |-> "STRING", value |-> <<"\"", "e", "n", "\"">>], [kind |-> "STRING", value |-> <<"\"", "N", "o", "\"">>]>>],
      [sel |-> TRUE, pkg |-> "i18n", fun |-> "P",
       args |-> <<[kind |-> "INT", value |-> <<"5">>]>>],
      [sel |-> TRUE, pkg |-> "i18n", fun |-> "S",
       args |-> <<>>],
      [sel |-> FALSE, pkg |-> "", fun |-> "T",
       args |-> <<[kind |-> "STRING", value |-> <<"\"", "N", "o", "\"">>]>>]>>]

\* A Go file with i18n.S(`Hi`), a raw string literal.
RawGo ==
    [dir |-> FALSE, ext |-> ".go", parses |-> TRUE,
     calls |-> <<
      [sel |-> TRUE, pkg |-> "i18n", fun |-> "S",
       args |-> <<[kind |-> "STRING", value |-> <<BackQuote, "H", "i", BackQuote>>]>>]>>]

\* A Go file with i18n.T("welcome_user", "John"), the call of the
\* documentation of T.
KeyedGo ==
    [dir |-> FALSE, ext |-> ".go", parses |-> TRUE,
     calls |-> <<
      [sel |-> TRUE, pkg |-> "i18n", fun |-> "T",
       args |-> <<[kind |-> "STRING",
                   value |-> <<"\"", "w", "e", "l", "c", "o", "m", "e", "_",
                               "u", "s", "e", "r", "\"">>],
                  [kind |-> "STRING",
                   value |-> <<"\"", "J", "o", "h", "n", "\"">>]>>]>>]

\* A file that is no Go file, with the text i18n.S("Hi").
NotesTxt ==
    [dir |-> FALSE, ext |-> ".txt", parses |-> TRUE,
     calls |-> <<
      [sel |-> TRUE, pkg |-> "i18n", fun |-> "S",
       args |-> <<[kind |-> "STRING", value |-> <<"\"", "H", "i", "\"">>]>>]>>]

\* A directory under the root.
SubDir == [dir |-> TRUE, ext |-> "", parses |-> FALSE, calls |-> <<>>]

\* The source trees the extractor is run on.
Roots ==
    {<<>>, <<ReadmeGo>>, <<BrokenGo>>, <<BrokenGo, ReadmeGo>>, <<ComplexGo>>,
     <<RawGo, BrokenGo>>, <<SubDir, NotesTxt>>, <<KeyedGo>>}

KeyHello0 ==
    <<"h", "e", "l", "l", "o", "-", "0">>

TxHello ==
    <<"H", "e", "l", "l", "o", " ", "%", "s">>

World ==
    <<"W", "o", "r", "l", "d">>

\* The French file of the README.
FrenchDoc ==
    [meta |-> [lang |-> Fr, name |-> DefaultDictionary],
     translations |->
        KeyHello0 :>
            <<"B", "o", "n", "j", "o", "u", "r", " ", "%", "s">>
        @@ <<"d", "a", "s", "h", "b", "o", "a", "r", "d">> :>
            <<"T", "a", "b", "l", "e", "a", "u", " ", "d", "e", " ", "b",
              "o", "r", "d">>]

\* A French file without meta.name.
NoNameDoc ==
    [meta |-> [lang |-> Fr],
     translations |->
        KeyHello0 :>
            <<"S", "a", "l", "u", "t", " ", "%", "s">>]

\* The files written by hand.
HandDocs == {FrenchDoc, NoNameDoc, Malformed}

\* A path no file is ever written at.
NoSuchPath ==
    <<"x", ".", "j", "s", "o", "n">>

FileNext ==
    \/ \E locale \in Langs, root \in Roots,
          outputPath \in {<<>>, DefaultPath(Fr)}, writable \in BOOLEAN :
          GenerateTranslations(locale, root, outputPath, writable)
    \/ \E doc \in HandDocs : WriteFile(DefaultPath(Fr), doc)
    \/ \E path \in {NoSuchPath, DefaultPath(Fr)} : LoadFrom(path)
    \/ Load
    \/ \E lang \in Langs : LoadLanguage(lang)
    \/ \E locale \in Langs : CallF(TxHello, <<[str |-> World]>>, locale)
    \/ Return

FileSpec == Init /\ [][FileNext]_vars

(***************************************************************************)
(* The locks. Goroutines call the dictionary and registry operations       *)
(* concurrently; a call is a stack of frames, each at a position pc of its *)
(* function, and every step takes the goroutine to its next lock           *)
(* operation or access to shared memory. mu maps a lock to its state: the  *)
(* number of read locks held, and the goroutine that is in Lock or holds   *)
(* the write lock. As in sync.RWMutex, RLock blocks from the moment a      *)
(* goroutine has called Lock, and Lock then waits for the read locks held  *)
(* to be released. A *Dictionary is identified by its Lang: the registry   *)
(* holds one dictionary per language, registered before the goroutines     *)
(* start.                                                                  *)
(***************************************************************************)

\* d.Count(): the number of entries of the table.
Count(d) == Cardinality(DOMAIN d.Translations)

Goroutines == {"g1", "g2", "g3"}

\* The locks muDicts and muDefaultLang; the lock d.mu is named by d.
MuDicts == <<"muDicts">>

MuDefaultLang == <<"muDefaultLang">>

Unlocked == [readers |-> 0, writer |-> "none", held |-> FALSE]

\* RLock returns at once: no goroutine is in Lock or holds the write lock.
RLockable(m) == mu[m].writer = "none"

RLock(m) == [mu EXCEPT ![m].readers = @ + 1]

RUnlock(m) == [mu EXCEPT ![m].readers = @ - 1]

\* Lock gets past the other writers: from here on RLock blocks.
Lockable(m) == mu[m].writer = "none"

\* Lock that does not wait for the read locks to be released.
Drained_NoWait(m) == TRUE

\* Lock returns: the read locks held when it was called are released.
Drained(m) == mu[m].readers = 0

Unlock(m) == [mu EXCEPT ![m] = Unlocked]

\* The frame the goroutine is executing.
Top(p) == procs[p].frames[Len(procs[p].frames)]

Running(p, name) == procs[p].op = "running" /\ Top(p).fn = name

\* The goroutine moves to position pc of its frame.
Goto(p, pc) ==
    [procs EXCEPT ![p].frames = [@ EXCEPT ![Len(@)].pc = pc]]

\* The frame returns: the call is over when it is the only frame, otherwise
\* the caller goes on, from the position it left, with the value returned.
ReturnFrom(p) ==
    IF Len(procs[p].frames) = 1
    THEN [procs EXCEPT ![p] = [op |-> "returned", call |-> @.call,
                                      result |-> Top(p).result]]
    ELSE [procs EXCEPT ![p].frames =
             [SubSeq(@, 1, Len(@) - 1) EXCEPT
                 ![Len(@) - 1].result = Top(p).result]]

\* The frame is left with the value it returns, past its deferred unlock if
\* it has one.
Result(p, pc, value) ==
    [procs EXCEPT ![p].frames =
        [@ EXCEPT ![Len(@)] = [@ EXCEPT !.pc = pc, !.result = value]]]

\* The frame calls d.Get(key) and goes on from position pc when it returns.
GetCall(d, key) ==
    [fn |-> "Get", d |-> d, key |-> key, pc |-> "RLock", lang |-> <<>>,
     result |-> <<>>]

Call(p, pc, call) ==
    [procs EXCEPT ![p].frames = Append([@ EXCEPT ![Len(@)].pc = pc], call)]

\* go f(args): the goroutine starts the call.
Go(p, call) ==
    /\ procs[p].op = "idle"
    /\ procs' = [procs EXCEPT ![p] = [op |-> "running", call |-> call,
                                      frames |-> <<call>>]]
    /\ UNCHANGED <<dictionaries, currentLang, fn, ret, files, mu>>

\* d.Get(key).
GetLocked(p) ==
    /\ Running(p, "Get")
    /\ LET d == Top(p).d
       IN  \/ /\ Top(p).pc = "RLock"
              /\ RLockable(d)
              /\ mu' = RLock(d)
              /\ procs' = Goto(p, "lookup")
           \/ /\ Top(p).pc = "lookup"
              /\ procs' = IF Top(p).key \in DOMAIN dictionaries[d].Translations
                          THEN Result(p, "RUnlock",
                                      dictionaries[d].Translations[Top(p).key])
                          ELSE Goto(p, "DefaultLanguage")
              /\ mu' = mu
           \/ /\ Top(p).pc = "DefaultLanguage"
              /\ RLockable(MuDefaultLang)
              /\ mu' = RLock(MuDefaultLang)
              /\ procs' = Goto(p, "compare")
           \/ /\ Top(p).pc = "compare"
              /\ mu' = RUnlock(MuDefaultLang)
              /\ procs' = IF dictionaries[d].Lang # currentLang
                          THEN Goto(p, "DefaultLanguage2")
                          ELSE Result(p, "RUnlock", Top(p).key)
           \/ /\ Top(p).pc = "DefaultLanguage2"
              /\ RLockable(MuDefaultLang)
              /\ mu' = RLock(MuDefaultLang)
              /\ procs' = Goto(p, "lang")
           \/ /\ Top(p).pc = "lang"
              /\ mu' = RUnlock(MuDefaultLang)
              /\ procs' = [procs EXCEPT ![p].frames =
                              [@ EXCEPT ![Len(@)] =
                                  [Top(p) EXCEPT !.pc = "GetDictionary",
                                                 !.lang = currentLang]]]
           \/ /\ Top(p).pc = "GetDictionary"
              /\ RLockable(MuDicts)
              /\ mu' = RLock(MuDicts)
              /\ procs' = Goto(p, "defaultDict")
           \/ /\ Top(p).pc = "defaultDict"
              /\ mu' = RUnlock(MuDicts)
              /\ procs' =
                   LET defaultDict == GetDictionary(Top(p).lang)
                   IN  IF defaultDict # Nil /\ defaultDict.Lang # d
                       THEN Call(p, "RUnlock",
                                 GetCall(defaultDict.Lang, Top(p).key))
                       ELSE Result(p, "RUnlock", Top(p).key)
           \/ /\ Top(p).pc = "RUnlock"
              /\ mu' = RUnlock(d)
              /\ procs' = ReturnFrom(p)
    /\ UNCHANGED <<dictionaries, currentLang, fn, ret, files>>

\* The function T(key) returns, called with a locale.
TLocked(p) ==
    /\ Running(p, "T")
    /\ \/ /\ Top(p).pc = "GetDictionary"
          /\ RLockable(MuDicts)
          /\ mu' = RLock(MuDicts)
          /\ procs' = Goto(p, "dict")
       \/ /\ Top(p).pc = "dict"
          /\ mu' = RUnlock(MuDicts)
          /\ procs' =
               LET dict == GetDictionary(Top(p).locale)
               IN  IF dict # Nil
                   THEN Call(p, "return", GetCall(dict.Lang, Top(p).key))
                   ELSE Goto(p, "DefaultLanguage")
       \/ /\ Top(p).pc = "DefaultLanguage"
          /\ RLockable(MuDefaultLang)
          /\ mu' = RLock(MuDefaultLang)
          /\ procs' = Goto(p, "lang")
       \/ /\ Top(p).pc = "lang"
          /\ mu' = RUnlock(MuDefaultLang)
          /\ procs' = [procs EXCEPT ![p].frames =
                          [@ EXCEPT ![Len(@)] =
                              [Top(p) EXCEPT !.pc = "GetDictionary2",
                                             !.lang = currentLang]]]
       \/ /\ Top(p).pc = "GetDictionary2"
          /\ RLockable(MuDicts)
          /\ mu' = RLock(MuDicts)
          /\ procs' = Goto(p, "defaultDict")
       \/ /\ Top(p).pc = "defaultDict"
          /\ mu' = RUnlock(MuDicts)
          /\ procs' =
               LET defaultDict == GetDictionary(Top(p).lang)
               IN  IF defaultDict # Nil
                   THEN Call(p, "return",
                             GetCall(defaultDict.Lang, Top(p).key))
                   ELSE Goto(p, "return")
       \/ /\ Top(p).pc = "return"
          /\ mu' = mu
          /\ procs' =
               LET tr == Top(p).result
                   template == IF tr # <<>> /\ tr # Top(p).key
                               THEN tr ELSE Top(p).key
               IN  [procs EXCEPT ![p] = [op |-> "returned", call |-> @.call,
                                         result |-> template]]
    /\ UNCHANGED <<dictionaries, currentLang, fn, ret, files>>

\* d.Has(key), d.Keys() and d.Count(): the three take the read lock of d,
\* read the table and release the lock.
ReadLocked(p) ==
    /\ \/ Running(p, "Has")
       \/ Running(p, "Keys")
       \/ Running(p, "Count")
    /\ LET d == Top(p).d
       IN  \/ /\ Top(p).pc = "RLock"
              /\ RLockable(d)
              /\ mu' = RLock(d)
              /\ procs' = Goto(p, "read")
           \/ /\ Top(p).pc = "read"
              /\ mu' = mu
              /\ procs' =
                   Result(p, "RUnlock",
                          IF Top(p).fn = "Has"
                          THEN Top(p).key \in DOMAIN dictionaries[d].Translations
                          ELSE IF Top(p).fn = "Keys"
                          THEN DOMAIN dictionaries[d].Translations
                          ELSE Count(dictionaries[d]))
           \/ /\ Top(p).pc = "RUnlock"
              /\ mu' = RUnlock(d)
              /\ procs' = ReturnFrom(p)
    /\ UNCHANGED <<dictionaries, currentLang, fn, ret, files>>

\* d.Add(key, value). The assignment to the map is not atomic: it reads the
\* table and stores the updated one.
AddLocked(p) ==
    /\ Running(p, "Add")
    /\ LET d == Top(p).d
       IN  \/ /\ Top(p).pc = "Lock"
              /\ Lockable(d)
              /\ mu' = [mu EXCEPT ![d].writer = p]
              /\ procs' = Goto(p, "wait")
              /\ dictionaries' = dictionaries
           \/ /\ Top(p).pc = "wait"
              /\ Drained(d)
              /\ mu' = [mu EXCEPT ![d].held = TRUE]
              /\ procs' = Goto(p, "write")
              /\ dictionaries' = dictionaries
           \/ /\ Top(p).pc = "write"
              /\ procs' = [procs EXCEPT ![p].frames =
                              [@ EXCEPT ![Len(@)] =
                                  [@ EXCEPT
                                      !.pc = "store",
                                      !.table = dictionaries[d].Translations]]]
              /\ mu' = mu
              /\ dictionaries' = dictionaries
           \/ /\ Top(p).pc = "store"
              /\ dictionaries' =
                   [dictionaries EXCEPT ![d].Translations =
                       (Top(p).key :> Top(p).value) @@ Top(p).table]
              /\ mu' = Unlock(d)
              /\ procs' = ReturnFrom(p)
    /\ UNCHANGED <<currentLang, fn, ret, files>>

\* d.AddAll(translations): the entries are stored one by one, in the order
\* the map is ranged over, under one write lock.
AddAllLocked(p) ==
    /\ Running(p, "AddAll")
    /\ LET d == Top(p).d
       IN  \/ /\ Top(p).pc = "Lock"
              /\ Lockable(d)
              /\ mu' = [mu EXCEPT ![d].writer = p]
              /\ procs' = Goto(p, "wait")
              /\ dictionaries' = dictionaries
           \/ /\ Top(p).pc = "wait"
              /\ Drained(d)
              /\ mu' = [mu EXCEPT ![d].held = TRUE]
              /\ procs' = Goto(p, "write")
              /\ dictionaries' = dictionaries
           \/ /\ Top(p).pc = "write"
              /\ \E k \in DOMAIN Top(p).translations \ Top(p).stored :
                    procs' = [procs EXCEPT ![p].frames =
                                 [@ EXCEPT ![Len(@)] =
                                     [@ EXCEPT
                                         !.pc = "store", !.k = k,
                                         !.table = dictionaries[d].Translations]]]
              /\ mu' = mu
              /\ dictionaries' = dictionaries
           \/ /\ Top(p).pc = "store"
              /\ dictionaries' =
                   [dictionaries EXCEPT ![d].Translations =
                       (Top(p).k :> Top(p).translations[Top(p).k])
                       @@ Top(p).table]
              /\ procs' = [procs EXCEPT ![p].frames =
                              [@ EXCEPT ![Len(@)] =
                                  [@ EXCEPT !.pc = "write",
                                            !.stored = @ \cup {Top(p).k}]]]
              /\ mu' = mu
           \/ /\ Top(p).pc = "write"
              /\ Top(p).stored = DOMAIN Top(p).translations
              /\ mu' = Unlock(d)
              /\ procs' = ReturnFrom(p)
              /\ dictionaries' = dictionaries
    /\ UNCHANGED <<currentLang, fn, ret, files>>

\* Register(dict), of the dictionary already registered under its language.
RegisterLocked(p) ==
    /\ Running(p, "Register")
    /\ \/ /\ Top(p).pc = "Lock"
          /\ Lockable(MuDicts)
          /\ mu' = [mu EXCEPT ![MuDicts].writer = p]
          /\ procs' = Goto(p, "wait")
          /\ dictionaries' = dictionaries
       \/ /\ Top(p).pc = "wait"
          /\ Drained(MuDicts)
          /\ mu' = [mu EXCEPT ![MuDicts].held = TRUE]
          /\ procs' = Goto(p, "write")
          /\ dictionaries' = dictionaries
       \/ /\ Top(p).pc = "write"
          /\ dictionaries' =
               (Top(p).d :> dictionaries[Top(p).d]) @@ dictionaries
          /\ mu' = Unlock(MuDicts)
          /\ procs' = ReturnFrom(p)
    /\ UNCHANGED <<currentLang, fn, ret, files>>

\* SetDefaultLanguage(lang).
SetDefaultLanguageLocked(p) ==
    /\ Running(p, "SetDefaultLanguage")
    /\ \/ /\ Top(p).pc = "Lock"
          /\ Lockable(MuDefaultLang)
          /\ mu' = [mu EXCEPT ![MuDefaultLang].writer = p]
          /\ procs' = Goto(p, "wait")
          /\ currentLang' = currentLang
       \/ /\ Top(p).pc = "wait"
          /\ Drained(MuDefaultLang)
          /\ mu' = [mu EXCEPT ![MuDefaultLang].held = TRUE]
          /\ procs' = Goto(p, "write")
          /\ currentLang' = currentLang
       \/ /\ Top(p).pc = "write"
          /\ currentLang' = Top(p).lang
          /\ mu' = Unlock(MuDefaultLang)
          /\ procs' = ReturnFrom(p)
    /\ UNCHANGED <<dictionaries, fn, ret, files>>

\* The calls each goroutine makes one of: g1 reads, g2 and g3 write, each its
\* own value, and g3 also changes the default language and registers a
\* dictionary.
CallsOf(p) ==
    IF p = "g1" THEN
        {GetCall(d, KeyHi0) : d \in Langs}
        \cup {[fn |-> "T", key |-> KeyHi0, locale |-> locale,
               pc |-> "GetDictionary", lang |-> <<>>, result |-> <<>>] :
                locale \in {Fr, Ru}}
        \cup {[fn |-> name, d |-> En, key |-> KeyHi0, pc |-> "RLock",
               result |-> <<>>] : name \in {"Has", "Keys", "Count"}}
    ELSE IF p = "g2" THEN
        {[fn |-> "Add", d |-> d, key |-> KeyHi0, value |-> TxHi,
          table |-> <<>>, pc |-> "Lock", result |-> <<>>] : d \in Langs}
        \cup {[fn |-> "AddAll", d |-> En,
               translations |-> KeyHi0 :> TxHi @@ KeyHi :> TxHi,
               stored |-> {}, k |-> <<>>, table |-> <<>>, pc |-> "Lock",
               result |-> <<>>]}
    ELSE
        {[fn |-> "Add", d |-> En, key |-> KeyHi0, value |-> TxHiS,
          table |-> <<>>, pc |-> "Lock", result |-> <<>>],
         [fn |-> "Register", d |-> Fr, pc |-> "Lock", result |-> <<>>]}
        \cup {[fn |-> "SetDefaultLanguage", lang |-> lang, pc |-> "Lock",
               result |-> <<>>] :
                lang \in Langs}

ConcInit ==
    /\ dictionaries = (En :> NewDictionary(En)) @@ (Fr :> NewDictionary(Fr))
    /\ currentLang = DefaultLang
    /\ fn = NoFn
    /\ ret = NoRet
    /\ files = <<>>
    /\ mu = [m \in {MuDicts, MuDefaultLang, En, Fr} |-> Unlocked]
    /\ procs = [p \in Goroutines |-> [op |-> "idle"]]

\* One step of goroutine p.
Step(p) ==
    \/ \E call \in CallsOf(p) : Go(p, call)
    \/ TLocked(p)
    \/ GetLocked(p)
    \/ ReadLocked(p)
    \/ AddLocked(p)
    \/ AddAllLocked(p)
    \/ RegisterLocked(p)
    \/ SetDefaultLanguageLocked(p)

ConcNext == \E p \in Goroutines : Step(p)

\* The goroutines are scheduled fairly.
ConcSpec ==
    ConcInit /\ [][ConcNext]_vars /\ \A p \in Goroutines : WF_vars(Step(p))

(***************************************************************************)
(* What the claims speak of, stated on the registry itself rather than     *)
(* through Dictionary.Get.                                                 *)
(***************************************************************************)

\* The dictionary registered under lang has an entry for key.
HasEntry(lang, key) ==
    /\ lang \in DOMAIN dictionaries
    /\ key \in DOMAIN dictionaries[lang].Translations

Entry(lang, key) == dictionaries[lang].Translations[key]

\* Some dictionary of the two-level lookup has an entry for key.
Found(locale, key) == HasEntry(locale, key) \/ HasEntry(currentLang, key)

\* The two-level lookup: the locale's entry, else the default language's
\* entry, else the fallback.
TwoLevel(locale, key, fallback) ==
    IF HasEntry(locale, key) THEN Entry(locale, key)
    ELSE IF HasEntry(currentLang, key) THEN Entry(currentLang, key)
    ELSE fallback

\* A looked-up value that T, F, S and R take as a translation.
Usable(value, key) == value # <<>> /\ value # key

\* C1 as stated. For every registry, key, arguments and locale, T takes its
\* template from the locale's dictionary when it has an entry for the key,
\* otherwise from the default-language dictionary when it has one, otherwise
\* the template is the key.
C1_TemplateSourceAsStated ==
    ret.op = "T" =>
        ret.result =
            SubstituteArgs(TwoLevel(ret.locale, fn.key, fn.key), fn.args, 0)

\* C1, amended. As C1, except that an entry whose value is the empty string
\* gives the key itself as the template.
C1_TemplateSource ==
    ret.op = "T" =>
        LET value == TwoLevel(ret.locale, fn.key, fn.key)
        IN  ret.result =
                SubstituteArgs(IF value = <<>> THEN fn.key ELSE value, fn.args, 0)

\* T fell back from a registered dictionary without the key to the entry of
\* the default-language dictionary.
C1_Witness ==
    /\ ret.op = "T"
    /\ ret.locale \in DOMAIN dictionaries
    /\ ~HasEntry(ret.locale, fn.key)
    /\ HasEntry(currentLang, fn.key)
    /\ Entry(currentLang, fn.key) = KeyHi
    /\ ret.result = KeyHi

(***************************************************************************)
(* The plural sub-template of a category, stated by counting braces.       *)
(***************************************************************************)

\* The text that opens the sub-template of a category: `<category> {`.
Opening(form) == form \o <<" ", "{">>

\* The 0-based positions of template where the category's opening occurs.
Openings(template, form) ==
    {i \in 0..Len(template) : HasAt(template, i, Opening(form))}

\* The template after the first opening of the category.
AfterOpening(template, form) ==
    LET first == CHOOSE i \in Openings(template, form) :
                    \A j \in Openings(template, form) : i <= j
    IN  Drop(template, first + Len(Opening(form)))

\* The brace depth after the first n characters of content, 1 at the start.
Depth(content, n) ==
    1 + Cardinality({i \in 1..n : content[i] = "{"})
      - Cardinality({i \in 1..n : content[i] = "}"})

\* The lengths at which content has returned to depth 0.
Closings(content) == {n \in 1..Len(content) : Depth(content, n) = 0}

\* The template has a sub-template for the category: an opening and the
\* close brace that matches it.
HasSubTemplate(template, form) ==
    /\ Openings(template, form) # {}
    /\ Closings(AfterOpening(template, form)) # {}

\* The text between the first opening of the category and its matching brace.
SubTemplate(template, form) ==
    LET content == AfterOpening(template, form)
        close   == CHOOSE n \in Closings(content) :
                      \A m \in Closings(content) : n <= m
    IN  Take(content, close - 1)

\* The sub-template with every # replaced by the count, trimmed; empty when
\* the category has no sub-template.
CategoryText(template, form, count) ==
    IF HasSubTemplate(template, form)
    THEN TrimSpace(ReplaceAll(SubTemplate(template, form), <<"#">>, Itoa(count)))
    ELSE <<>>

\* The template P resolves for the call that has returned.
PTemplate == TwoLevel(ret.locale, fn.key, fn.key)

\* The category the locale selects for the call of P that has returned.
PForm == determinePluralForm(ret.locale, fn.count)

\* C2 as stated. When the resolved template has the plural marker and a
\* sub-template for the category the locale selects, P returns exactly that
\* sub-template with every # replaced by the decimal count.
C2_SelectedCategoryAsStated ==
    (/\ ret.op = "P"
     /\ Contains(PTemplate, PluralMarker)
     /\ HasSubTemplate(PTemplate, PForm))
    => ret.result = ReplaceAll(SubTemplate(PTemplate, PForm), <<"#">>, Itoa(fn.count))

\* C2, amended. When the resolved template has the plural marker and a
\* sub-template for the selected category that is not empty once every # is
\* replaced by the decimal count and the surrounding whitespace is trimmed,
\* P returns exactly that replaced and trimmed text.
C2_SelectedCategory ==
    (/\ ret.op = "P"
     /\ Contains(PTemplate, PluralMarker)
     /\ CategoryText(PTemplate, PForm, fn.count) # <<>>)
    => ret.result = CategoryText(PTemplate, PForm, fn.count)

\* P returned the padded sub-template of `one`, trimmed, with the count in it.
C2_Witness ==
    /\ ret.op = "P"
    /\ PTemplate = PlPad
    /\ fn.count = 1
    /\ ret.result = <<"1", "i">>

C3_WitnessRaw ==
    /\ ret.op = "P"
    /\ PTemplate = PlPad
    /\ PForm = Few
    /\ ret.result = ReplaceAll(PlPad, CountMarker, Itoa(fn.count))
    /\ ret.result # PlPad

\* C4. When neither the locale's dictionary nor the default-language
\* dictionary has an entry for slugify(text), S(text)(locale) returns the
\* text unchanged, never the derived key.
C4_StaticFallback ==
    (ret.op = "S" /\ ~Found(ret.locale, slugify(fn.text)))
    => ret.result = fn.text

\* S looked in two registered dictionaries, found no entry and returned a text
\* that differs from its key.
C4_Witness ==
    /\ ret.op = "S"
    /\ ret.locale \in DOMAIN dictionaries
    /\ currentLang \in DOMAIN dictionaries
    /\ ret.locale # currentLang
    /\ ~Found(ret.locale, slugify(fn.text))
    /\ ret.result = TxHiS
    /\ ret.result # slugify(fn.text)

\* C5 as stated. When the locale's dictionary or, failing that, the
\* default-language dictionary has an entry for slugify(text), S(text)(locale)
\* returns that entry's value.
C5_StaticFoundAsStated ==
    (ret.op = "S" /\ Found(ret.locale, slugify(fn.text)))
    => ret.result = TwoLevel(ret.locale, slugify(fn.text), fn.text)

\* C5, amended. When the entry found for slugify(text), in the locale's
\* dictionary or, when that has none, in the default-language dictionary, has
\* a value that is neither empty nor the key itself, S(text)(locale) returns
\* that value.
C5_StaticFound ==
    (/\ ret.op = "S"
     /\ Found(ret.locale, slugify(fn.text))
     /\ Usable(TwoLevel(ret.locale, slugify(fn.text), fn.text), slugify(fn.text)))
    => ret.result = TwoLevel(ret.locale, slugify(fn.text), fn.text)

\* S returned the default-language entry for a locale without a dictionary.
C5_Witness ==
    /\ ret.op = "S"
    /\ ret.locale \notin DOMAIN dictionaries
    /\ HasEntry(currentLang, slugify(fn.text))
    /\ ret.result = KeyHi
    /\ ret.result # fn.text

(***************************************************************************)
(* Substitution of the arguments in one pass.                              *)
(***************************************************************************)

\* The indices of the arguments whose placeholder starts at position i of s.
PlaceholdersAt(s, i, args) ==
    {k \in 0..(Len(args) - 1) : HasAt(s, i, Placeholder(k))}

\* s from position i on, with every placeholder {k} of an argument replaced by
\* the stringified args[k]; text that was inserted is not read again.
RECURSIVE OnePass(_, _, _)
OnePass(s, i, args) ==
    IF i >= Len(s) THEN <<>>
    ELSE IF PlaceholdersAt(s, i, args) # {}
         THEN LET k == CHOOSE k \in PlaceholdersAt(s, i, args) : TRUE
              IN  Sprint(args[k + 1]) \o OnePass(s, i + Len(Placeholder(k)), args)
         ELSE <<s[i + 1]>> \o OnePass(s, i + 1, args)

\* The format from position i on, with the n-th format token (n counted from
\* 0) replaced by the stringified args[n], or by {n} when there is no args[n].
RECURSIVE Formatted(_, _, _, _)
Formatted(format, i, n, args) ==
    IF i >= Len(format) THEN <<>>
    ELSE IF argPattern(format, i)
         THEN (IF n < Len(args) THEN Sprint(args[n + 1]) ELSE Placeholder(n))
                \o Formatted(format, i + 2, n + 1, args)
         ELSE <<format[i + 1]>> \o Formatted(format, i + 1, n, args)

\* C6 as stated. When no dictionary entry exists for the derived key,
\* F(format, args...)(locale) is the output of normalize(format) with each
\* placeholder {i} replaced by the stringified args[i], that is the literal
\* text of the format with the arguments in the positions of the original
\* format tokens.
C6_RoundTripAsStated ==
    (ret.op = "F" /\ ~Found(ret.locale, slugify(fn.format)))
    => /\ ret.result = OnePass(normalize(fn.format).out, 0, fn.args)
       /\ ret.result = Formatted(fn.format, 0, 0, fn.args)

\* The template T or F resolves for the call that has returned: the looked-up
\* value when it is usable, else T's key or F's normalized template.
ResolvedTemplate ==
    LET value == TwoLevel(ret.locale, fn.key, fn.key)
    IN  IF Usable(value, fn.key) THEN value
        ELSE IF fn.kind = "F" THEN normalize(fn.format).out ELSE fn.key

\* C7 as stated. When the derived key slugify(format) has an entry in the
\* locale's dictionary or, failing that, in the default one,
\* F(format, args...)(locale) returns what T(slugify(format), args...)(locale)
\* returns.
C7_FormatAsKeyAsStated ==
    (ret.op = "F" /\ Found(ret.locale, slugify(fn.format)))
    => ret.result = InvokeT(T(slugify(fn.format), fn.args), ret.locale)

\* C7, amended. When the entry found for slugify(format), in the locale's
\* dictionary or, when that has none, in the default one, has a value that is
\* neither empty nor the key itself, F(format, args...)(locale) returns what
\* T(slugify(format), args...)(locale) returns.
C7_FormatAsKey ==
    (/\ ret.op = "F"
     /\ Found(ret.locale, slugify(fn.format))
     /\ Usable(TwoLevel(ret.locale, slugify(fn.format), <<>>), slugify(fn.format)))
    => ret.result = InvokeT(T(slugify(fn.format), fn.args), ret.locale)

\* F found a template with placeholders under its derived key in the default
\* dictionary and substituted an argument in it.
C7_Witness ==
    /\ ret.op = "F"
    /\ ~HasEntry(ret.locale, fn.key)
    /\ HasEntry(currentLang, fn.key)
    /\ Entry(currentLang, fn.key) = TplArgs
    /\ fn.args = <<[int |-> 5]>>
    /\ ret.result = <<"5", "/", "{", "1", "}">>

\* C8 as stated. In T and F every placeholder {i} of the resolved template is
\* replaced by the stringified args[i], and a later replacement never alters
\* text that an earlier one inserted: a "{1}" inside args[0] stays verbatim.
C8_SinglePassAsStated ==
    ret.op \in {"T", "F"} => ret.result = OnePass(ResolvedTemplate, 0, fn.args)

\* C9 as stated. When the locale's dictionary has an entry for the key whose
\* value is the key itself, T retries in the default-language dictionary and
\* uses its entry as the template when it has one.
C9_KeyValuedEntryAsStated ==
    (/\ ret.op = "T"
     /\ HasEntry(ret.locale, fn.key)
     /\ Entry(ret.locale, fn.key) = fn.key
     /\ HasEntry(currentLang, fn.key))
    => ret.result = SubstituteArgs(Entry(currentLang, fn.key), fn.args, 0)

\* C9, amended. When the locale's dictionary has an entry for the key whose
\* value is the key itself, T uses the key as the template and does not look
\* in the default-language dictionary.
C9_KeyValuedEntry ==
    (/\ ret.op = "T"
     /\ HasEntry(ret.locale, fn.key)
     /\ Entry(ret.locale, fn.key) = fn.key)
    => ret.result = SubstituteArgs(fn.key, fn.args, 0)

\* T returned the key although the default-language dictionary, another one,
\* holds a different translation.
C9_Witness ==
    /\ ret.op = "T"
    /\ ret.locale # currentLang
    /\ HasEntry(ret.locale, fn.key)
    /\ Entry(ret.locale, fn.key) = fn.key
    /\ HasEntry(currentLang, fn.key)
    /\ Entry(currentLang, fn.key) = KeyHi
    /\ ret.result = fn.key

\* C10. R(locale, text) returns the string S(text)(locale) returns.
C10_DirectIsStatic ==
    ret.op = "R" => ret.result = InvokeS(S(ret.text), ret.locale)

\* R returned a translation found in the default-language dictionary.
C10_Witness ==
    /\ ret.op = "R"
    /\ ~HasEntry(ret.locale, slugify(ret.text))
    /\ HasEntry(currentLang, slugify(ret.text))
    /\ ret.result = PlStd
    /\ ret.result # ret.text

(***************************************************************************)
(* Dictionary.Get called directly, and the registry.                       *)
(***************************************************************************)

\* The value d.Get(key) takes from the dictionary registered under the default
\* language, which itself has no dictionary to fall back to.
FromDefault(key) ==
    IF HasEntry(currentLang, key) THEN Entry(currentLang, key) ELSE key

\* C11 as stated. For every dictionary d and key k, d.Get(k) is d's own value
\* for k when d has one; otherwise, when d is not the dictionary registered
\* under the default language and one is registered, the result of that
\* dictionary's Get(k); otherwise k. Get modifies no dictionary.
C11_GetFallbackAsStated ==
    ret.op = "Get" =>
        ret.result =
            IF ret.key \in DOMAIN ret.d.Translations
            THEN ret.d.Translations[ret.key]
            ELSE IF currentLang \in DOMAIN dictionaries
                      /\ ret.d # dictionaries[currentLang]
                 THEN FromDefault(ret.key)
                 ELSE ret.key

\* C11, amended. As C11, except that the fallback is taken when the language
\* of d differs from the default language: a dictionary in the default
\* language returns k for a key it lacks, also when it is not the registered
\* one.
C11_GetFallback ==
    ret.op = "Get" =>
        ret.result =
            IF ret.key \in DOMAIN ret.d.Translations
            THEN ret.d.Translations[ret.key]
            ELSE IF currentLang \in DOMAIN dictionaries
                      /\ ret.d.Lang # currentLang
                 THEN FromDefault(ret.key)
                 ELSE ret.key

\* Get on a dictionary that lacks the key; the dictionary is in the default
\* language without being the registered one, which has the key.
C11_Witness ==
    /\ ret.op = "Get"
    /\ ret.key \notin DOMAIN ret.d.Translations
    /\ ret.d.Lang = currentLang
    /\ HasEntry(currentLang, ret.key)
    /\ ret.result = ret.key

\* C14. A step of Register(d) makes GetDictionary(d.Lang) return d, with the
\* entries of d and none of the dictionary it replaces, and leaves the
\* dictionary of every other language as it was; no other step changes the
\* set of registered languages, so GetDictionary is nil for a language no
\* dictionary was registered with.
C14_RegisterReplaces ==
    [][IF ret'.op = "Register"
       THEN \E lang \in Langs :
               /\ lang = ret'.dict.Lang
               /\ GetDictionary(lang)' = ret'.dict
               /\ \A other \in Locales \ {lang} :
                      GetDictionary(other)' = GetDictionary(other)
       ELSE \A lang \in Locales :
                   (GetDictionary(lang)' = Nil) <=> (GetDictionary(lang) = Nil)
      ]_vars

\* Register has replaced a dictionary that had an entry by one without
\* entries, while the other language has a dictionary with an entry.
C14_Witness ==
    /\ ret.op = "Register"
    /\ ret.replaced # Nil
    /\ ret.replaced.Translations # <<>>
    /\ ret.dict.Translations = <<>>
    /\ GetDictionary(ret.dict.Lang).Translations = <<>>
    /\ \E lang \in Langs \ {ret.dict.Lang} : HasEntry(lang, KeyHi0)

(***************************************************************************)
(* determinePluralForm on its own.                                         *)
(***************************************************************************)

\* The locale strings determinePluralForm is called with: the eleven of its
\* switch, and strings that are none of them but close to one.
PluralLocales ==
    {En, De, It, Es, Pt, Fr, Ru, Uk, Be, Pl, Ar,
     <<>>, <<"R", "U">>, <<"r", "u", "-", "R", "U">>, <<"P", "l">>,
     <<"a">>, <<"a", "r", "b">>, <<"A", "r">>, <<"x", "x">>}

\* The largest count determinePluralForm is called with.
MaxPluralCount == 100

\* determinePluralForm(locale, count).
CallDeterminePluralForm(locale, count) ==
    /\ ret = NoRet
    /\ ret' = [op |-> "determinePluralForm", locale |-> locale,
               count |-> count, result |-> determinePluralForm(locale, count)]
    /\ UNCHANGED <<dictionaries, currentLang, fn, aux>>

PluralNext ==
    \/ \E locale \in PluralLocales, count \in 0..MaxPluralCount :
          CallDeterminePluralForm(locale, count)
    \/ Return

PluralSpec == Init /\ [][PluralNext]_vars

\* The table of plural categories, by family of locales.
PluralTable(locale, count) ==
    IF locale \in {Ru, Uk, Be, Pl} THEN
        CASE count = 0 -> Zero
          [] count = 1 -> One
          [] count \in 2..4 -> Few
          [] OTHER -> Many
    ELSE IF locale = Ar THEN
        CASE count = 0 -> Zero
          [] count = 1 -> One
          [] count = 2 -> Two
          [] count \in 3..10 -> Few
          [] count \in 11..99 -> Many
          [] OTHER -> Other
    ELSE
        CASE count = 0 -> Zero
          [] count = 1 -> One
          [] OTHER -> Other

\* C20. For every locale string and every count >= 0, determinePluralForm
\* returns the category of the table: the Slavic rule for exactly ru, uk, be
\* and pl, the Arabic rule for exactly ar, and the rule zero, one, other for
\* every other string.
C20_PluralTable ==
    ret.op = "determinePluralForm" /\ ret.count >= 0 =>
        ret.result = PluralTable(ret.locale, ret.count)

\* determinePluralForm has been called with a locale string that differs
\* from ru only in case, and a count the Slavic rule gives few for.
C20_Witness ==
    /\ ret.op = "determinePluralForm"
    /\ ret.locale = <<"R", "U">>
    /\ ret.count = 3
    /\ ret.result = Other

(***************************************************************************)
(* The faults of a dictionary file.                                        *)
(***************************************************************************)

\* The characters a language code is made of.
LangChars ==
    {LowerLetters[i] : i \in 1..26} \cup {UpperLetters[i] : i \in 1..26}
        \cup {Digits[i] : i \in 1..10} \cup {"-"}

\* The braces of the template are balanced: no prefix has more closing than
\* opening braces, and the whole has as many of each.
Balanced(template) ==
    /\ \A n \in 1..Len(template) : Depth(template, n) >= 1
    /\ Depth(template, Len(template)) = 1

\* The template has the plural marker and is malformed.
MalformedPlural(template) ==
    /\ Contains(template, PluralMarker)
    /\ \/ ~Balanced(template)
       \/ \A form \in {Zero, One, Two, Few, Many, Other} :
              ~Contains(template, Opening(form))

\* The entries of the file, none when it has no translations object.
EntriesOf(tf) == IF "Translations" \in DOMAIN tf THEN tf.Translations ELSE <<>>

\* The file has one of the faults of C15.
Faulty(tf) ==
    \/ tf.Lang = <<>>
    \/ tf.Name = <<>>
    \/ Len(tf.Lang) < 2
    \/ Len(tf.Lang) > 5
    \/ \E i \in 1..Len(tf.Lang) : tf.Lang[i] \notin LangChars
    \/ \E key \in DOMAIN EntriesOf(tf) :
          \/ key = <<>>
          \/ EntriesOf(tf)[key] = <<>>
          \/ MalformedPlural(EntriesOf(tf)[key])

\* C15 as stated. validateTranslationFile returns an error for every file
\* with an empty meta.lang or meta.name, a meta.lang of fewer than 2 or more
\* than 5 characters or with a character that is no letter, digit or hyphen,
\* an empty key, an empty value, or a malformed plural template, and returns
\* no error for a file with none of these.
C15_ValidationAsStated ==
    ret.op = "validateTranslationFile" =>
        ((ret.err # NoErr) <=> Faulty(ret.tf))

\* C15, amended. As C15, and a file without a translations object is
\* rejected too; a file with an empty translations object and no other fault
\* is accepted.
C15_Validation ==
    ret.op = "validateTranslationFile" =>
        ((ret.err # NoErr) <=> (Faulty(ret.tf) \/ NilTranslations(ret.tf)))

\* A file whose only entry has an unclosed brace and no plural marker has
\* been accepted.
C15_Witness ==
    /\ ret.op = "validateTranslationFile"
    /\ ret.tf.Lang = <<"e", "n", "-", "U", "S">>
    /\ ~NilTranslations(ret.tf)
    /\ DOMAIN ret.tf.Translations = {KeyHi0}
    /\ ret.tf.Translations[KeyHi0] = TxOpenBrace
    /\ ret.err = NoErr

(***************************************************************************)
(* Loading and extracting.                                                 *)
(***************************************************************************)

\* C16. A step of LoadFrom, Load or LoadLanguage that returns an error leaves
\* the registry and the default language as they were; a step that returns
\* none registers, under the meta.lang of the file, a dictionary with exactly
\* the translations of the file, and leaves every other language and the
\* default language as they were.
C16_LoadAllOrNothing ==
    [][ret'.op = "LoadFrom" =>
         /\ currentLang' = currentLang
         /\ IF ret'.err # NoErr THEN dictionaries' = dictionaries
            ELSE \E lang \in Langs :
                    /\ lang = files[ret'.path].meta.lang
                    /\ GetDictionary(lang)' =
                          [Lang |-> lang,
                           Translations |-> files[ret'.path].translations]
                    /\ \A other \in Locales \ {lang} :
                           GetDictionary(other)' = GetDictionary(other)
      ]_vars

\* The load of a French file without meta.name has failed and the dictionary
\* loaded from the French file of the README is still the registered one.
C16_Witness ==
    /\ ret.op = "LoadFrom"
    /\ ret.err = "validation failed"
    /\ files[ret.path] = NoNameDoc
    /\ GetDictionary(Fr) = [Lang |-> Fr, Translations |-> FrenchDoc.translations]

HelloWorld ==
    <<"H", "e", "l", "l", "o", " ", "W", "o", "r", "l", "d">>

BonjourWorld ==
    <<"B", "o", "n", "j", "o", "u", "r", " ", "W", "o", "r", "l", "d">>

\* The English dictionary is the one loaded from the file the extractor wrote
\* at the default path for a source with i18n.F("Hello %s", ...).
ExtractedLoaded ==
    /\ DefaultFilePath \in DOMAIN files
    /\ files[DefaultFilePath].meta.lang = En
    /\ KeyHello0 \in DOMAIN files[DefaultFilePath].translations
    /\ files[DefaultFilePath].translations[KeyHello0] = TxHello
    /\ GetDictionary(En) =
          [Lang |-> En, Translations |-> files[DefaultFilePath].translations]

\* C17 as stated. Once the file the extractor wrote for i18n.F("Hello %s", ...)
\* is loaded, F("Hello %s", "World")("en") is "Hello World", and
\* F("Hello %s", "World")("fr") is "Bonjour World" once the French file with
\* "hello-0": "Bonjour %s" is loaded too.
C17_ReadmeRoundTripAsStated ==
    (ret.op = "F" /\ fn.format = TxHello /\ fn.args = <<[str |-> World]>>
        /\ ExtractedLoaded) =>
        /\ ret.locale = En => ret.result = HelloWorld
        /\ (ret.locale = Fr
              /\ GetDictionary(Fr) =
                    [Lang |-> Fr, Translations |-> FrenchDoc.translations])
             => ret.result = BonjourWorld

\* The string a string literal denotes: the text of the token between its
\* quotes, double quotes or back quotes (the literals of the model have no
\* escape sequences).
LiteralValue(arg) == SubSeq(arg.value, 2, Len(arg.value) - 1)

\* The calls that contribute an entry: those of the Go files under the root
\* that parse, on the identifier i18n, of F, S, T or P, with a string
\* literal as first argument.
Contributing(root) ==
    {call \in UNION {{root[i].calls[j] : j \in 1..Len(root[i].calls)} :
                       i \in {k \in 1..Len(root) :
                                 /\ ~root[k].dir
                                 /\ root[k].ext = ".go"
                                 /\ root[k].parses}} :
        /\ call.sel
        /\ call.pkg = "i18n"
        /\ call.fun \in {"F", "S", "T", "P"}
        /\ call.args # <<>>
        /\ call.args[1].kind = "STRING"}

\* C18 as stated. The file GenerateTranslations writes has meta.lang the
\* requested locale and meta.name "default", and its translations are: a key
\* slugify(literal) for every contributing call, and under every key the
\* literal of a contributing call with that key; nothing else.
C18_ExtractedEntriesAsStated ==
    (ret.op = "GenerateTranslations" /\ ret.err = NoErr
        /\ Contributing(ret.root) # {}) =>
        /\ ret.path \in DOMAIN files
        /\ files[ret.path].meta = [lang |-> ret.locale, name |-> DefaultDictionary]
        /\ \A call \in Contributing(ret.root) :
              slugify(LiteralValue(call.args[1]))
                  \in DOMAIN files[ret.path].translations
        /\ \A key \in DOMAIN files[ret.path].translations :
              \E call \in Contributing(ret.root) :
                 /\ key = slugify(LiteralValue(call.args[1]))
                 /\ files[ret.path].translations[key] =
                       LiteralValue(call.args[1])

\* C19. A step of GenerateTranslations returns an error only when the output
\* cannot be written, whatever files under the root fail to parse; the keys
\* it writes are those of the contributing calls of the files that parse;
\* and when there is no such call it returns no error and writes no file.
C19_UnparsedSkipped ==
    [][ret'.op = "GenerateTranslations" =>
         LET keys == {slugify(LiteralValue(call.args[1])) :
                        call \in Contributing(ret'.root)}
         IN  /\ ret'.err # NoErr => (~ret'.writable /\ keys # {})
             /\ keys = {} => files' = files
             /\ (keys # {} /\ ret'.writable) =>
                   /\ ret'.path \in DOMAIN files'
                   /\ DOMAIN (files'[ret'.path].translations) = keys
      ]_vars

\* GenerateTranslations has run on a root with a file that does not parse and
\* the Go file of the README, and has written the three entries of the
\* latter.
C19_Witness ==
    /\ ret.op = "GenerateTranslations"
    /\ ret.root = <<BrokenGo, ReadmeGo>>
    /\ ret.err = NoErr
    /\ ret.path \in DOMAIN files
    /\ Cardinality(DOMAIN files[ret.path].translations) = 3
    /\ KeyHi \notin DOMAIN files[ret.path].translations

\* The lock the goroutine's next step takes, when that step is RLock or
\* Lock; <<>> when its next step is anything else.
Wanted(p) ==
    IF procs[p].op # "running" THEN <<>>
    ELSE IF Top(p).pc \in {"RLock", "Lock", "wait"}
         THEN IF Top(p).fn = "Register" THEN MuDicts
              ELSE IF Top(p).fn = "SetDefaultLanguage" THEN MuDefaultLang
              ELSE Top(p).d
    ELSE IF Top(p).pc \in {"DefaultLanguage", "DefaultLanguage2"}
         THEN MuDefaultLang
    ELSE IF Top(p).pc \in {"GetDictionary", "GetDictionary2"} THEN MuDicts
    ELSE <<>>

\* The goroutine is inside RLock or Lock and the call cannot return now.
Blocked(p) ==
    /\ Wanted(p) # <<>>
    /\ IF Top(p).pc = "wait" THEN ~Drained(Wanted(p))
       ELSE IF Top(p).pc = "Lock" THEN ~Lockable(Wanted(p))
       ELSE ~RLockable(Wanted(p))

\* No goroutine will take a step again, and one of them is inside a call.
Deadlocked ==
    /\ \A p \in Goroutines : procs[p].op = "returned" \/ Blocked(p)
    /\ \E p \in Goroutines : Blocked(p)

\* C12, as stated: whatever the interleaving of concurrent callers of
\* Register, GetDictionary, SetDefaultLanguage, DefaultLanguage, Add, AddAll
\* and Get, no call blocks forever. The goroutines never reach a state where
\* those that have not returned all wait for a lock that none of them will
\* release.
C12_NoCallBlocksForeverAsStated == ~Deadlocked

\* The goroutine is at the access to the table of d, as a writer or a reader.
Writing(p, d) ==
    /\ procs[p].op = "running"
    /\ Top(p).fn \in {"Add", "AddAll"}
    /\ Top(p).d = d
    /\ Top(p).pc \in {"write", "store"}

Reading(p, d) ==
    /\ procs[p].op = "running"
    /\ Top(p).fn \in {"Get", "Has", "Keys", "Count"}
    /\ Top(p).d = d
    /\ Top(p).pc \in {"lookup", "read"}

\* The entries the calls of Add and AddAll on d that have returned wrote.
Written(d) ==
    UNION {IF procs[p].call.fn = "Add"
           THEN {<<procs[p].call.key, procs[p].call.value>>}
           ELSE {<<k, procs[p].call.translations[k]>> :
                    k \in DOMAIN procs[p].call.translations} :
           p \in {q \in Goroutines :
                    /\ procs[q].op = "returned"
                    /\ procs[q].call.fn \in {"Add", "AddAll"}
                    /\ procs[q].call.d = d}}

\* C13: on one dictionary, a goroutine writing the table is never there
\* together with another writer or with a reader; and once the writers have
\* all returned, every key written is present with a value some writer wrote
\* for it, and Count is the number of distinct keys written.
C13_TableExclusion ==
    \A d \in Langs :
        /\ \A p \in Goroutines :
              Writing(p, d) =>
                  \A q \in Goroutines \ {p} : ~Writing(q, d) /\ ~Reading(q, d)
        /\ (\A p \in Goroutines :
               procs[p].op = "running" => Top(p).fn \notin {"Add", "AddAll"})
           => /\ \A e \in Written(d) :
                    /\ e[1] \in DOMAIN dictionaries[d].Translations
                    /\ <<e[1], dictionaries[d].Translations[e[1]]>> \in Written(d)
              /\ Count(dictionaries[d]) = Cardinality({e[1] : e \in Written(d)})

\* Two writers have written the same key of one dictionary and returned,
\* while a reader holds the table of that dictionary.
C13_Witness ==
    /\ Cardinality({p \in Goroutines :
                      /\ procs[p].op = "returned"
                      /\ procs[p].call.fn \in {"Add", "AddAll"}
                      /\ procs[p].call.d = En}) = 2
    /\ \E p \in Goroutines : Reading(p, En)
    /\ \E p \in Goroutines : Blocked(p) \/ procs[p].op = "returned"

(***************************************************************************)
(* extractPluralForm.                                                      *)
(***************************************************************************)

\* C21. When the template contains the opening of the category and the
\* brace it opens is closed, extractPluralForm returns the text between the
\* first opening and the brace that matches it, inner pairs of braces
\* included, with every # replaced by the decimal count, trimmed.
C21_MatchingBrace ==
    ret.op = "extractPluralForm" /\ HasSubTemplate(ret.template, ret.form) =>
        ret.result = CategoryText(ret.template, ret.form, ret.count)

\* extractPluralForm has returned a sub-template that holds a pair of braces
\* and a count of two digits.
C21_Witness ==
    /\ ret.op = "extractPluralForm"
    /\ ret.template = <<"o", "n", "e", " ", "{", "{", "#", "}", "}">>
    /\ ret.count = 12
    /\ ret.result = <<"{", "1", "2", "}">>

\* C22. extractPluralForm returns the empty string when the template does
\* not contain the opening of the category, and when the brace the first
\* opening opens is never closed.
C22_NotFound ==
    ret.op = "extractPluralForm" /\ ~HasSubTemplate(ret.template, ret.form) =>
        ret.result = <<>>

\* extractPluralForm has returned for a template whose category is opened,
\* with text and a closed inner pair behind the opening, and never closed.
C22_Witness ==
    /\ ret.op = "extractPluralForm"
    /\ ret.template = <<"o", "n", "e", " ", "{", "a", "{", "#", "}">>
    /\ ret.form = One
    /\ ret.result = <<>>

\* C28, as stated: extractPluralForm returns the empty string only when the
\* opening of the category is absent or its brace is never closed.
C28_SentinelOnlyWhenAbsentAsStated ==
    ret.op = "extractPluralForm" /\ ret.result = <<>> =>
        ~HasSubTemplate(ret.template, ret.form)

(***************************************************************************)
(* slugify and normalize, against their derivation from the text.          *)
(***************************************************************************)

\* The positions (from 1) where a format token starts: a percent sign with
\* a verb behind it. Two tokens never overlap, a verb being no percent sign.
TokenStarts(text) ==
    {i \in 1..(Len(text) - 1) : text[i] = "%" /\ text[i + 1] \in Verbs}

\* The k-th smallest (from 1) of a set of numbers.
Nth(set, k) == CHOOSE i \in set : Cardinality({j \in set : j < i}) = k - 1

\* The k-th literal segment (from 0): the text before the first token,
\* between two tokens, or behind the last.
Segment(text, k) ==
    LET n    == Cardinality(TokenStarts(text))
        from == IF k = 0 THEN 1 ELSE Nth(TokenStarts(text), k) + 2
        to   == IF k = n THEN Len(text) ELSE Nth(TokenStarts(text), k + 1) - 1
    IN  SubSeq(text, from, to)

IsAlnum(c) ==
    \/ \E k \in DOMAIN LowerLetters : LowerLetters[k] = c
    \/ \E k \in DOMAIN Digits : Digits[k] = c

\* The segment cleaned: lowercased, what is outside [a-z0-9] made a space,
\* the spaces collapsed and trimmed, then turned into dashes. A space is
\* kept where it is the first of its run, with a character of [a-z0-9]
\* somewhere before it and somewhere behind it.
Cleaned(segment) ==
    LET low  == ToLower(segment)
        keep == {i \in 1..Len(low) :
                   \/ IsAlnum(low[i])
                   \/ /\ i > 1
                      /\ IsAlnum(low[i - 1])
                      /\ \E j \in (i + 1)..Len(low) : IsAlnum(low[j])}
    IN  [k \in 1..Cardinality(keep) |->
            IF IsAlnum(low[Nth(keep, k)]) THEN low[Nth(keep, k)] ELSE "-"]

\* The key derived from the text: the cleaned segments that are not empty,
\* with the index of the k-th token between the segments it separates,
\* joined with dashes, double dashes collapsed, outer dashes trimmed.
DerivedKey(text) ==
    LET n     == Cardinality(TokenStarts(text))
        items == [i \in 1..(2 * n + 1) |->
                    IF i % 2 = 1 THEN Cleaned(Segment(text, (i - 1) \div 2))
                    ELSE Itoa((i \div 2) - 1)]
        out   == SelectSeq(items, LAMBDA item : item # <<>>)
    IN  Trim(Collapse(Join(out, <<"-">>), <<"-", "-">>, <<"-">>), "-")

KeyPieces(key) ==
    LET dashes == {i \in 1..Len(key) : key[i] = "-"}
        bounds == dashes \cup {0, Len(key) + 1}
    IN  [k \in 1..(Cardinality(dashes) + 1) |->
            SubSeq(key, Nth(bounds, k) + 1, Nth(bounds, k + 1) - 1)]

\* The digit indicators of a key: its pieces made of digits only.
DigitPieces(key) ==
    SelectSeq(KeyPieces(key),
              LAMBDA piece : /\ piece # <<>>
                             /\ \A i \in 1..Len(piece) :
                                   \E k \in DOMAIN Digits : Digits[k] = piece[i])

\* The key's digit indicators are 0..n-1 in order, n being the number of
\* tokens normalize returns, and the normalized template holds {0}..{n-1}.
Consistent(text, key) ==
    LET n == Len(normalize(text).matches)
    IN  /\ DigitPieces(key) = [k \in 1..n |-> Itoa(k - 1)]
        /\ \A k \in 0..(n - 1) : Contains(normalize(text).out, Placeholder(k))

\* C24, as stated: for every text, the digit indicators of slugify(text)
\* are as many as the tokens normalize(text) returns, and are 0..n-1 in
\* order.
C24_SlugifyNormalizeAsStated ==
    ret.op = "slugify" => Consistent(ret.format, ret.result)

\* C24, amended: the same for every text no literal segment of which holds
\* a word made of digits only.
C24_SlugifyNormalize ==
    /\ ret.op = "slugify"
    /\ \A k \in 0..Cardinality(TokenStarts(ret.format)) :
          DigitPieces(Cleaned(Segment(ret.format, k))) = <<>>
    => Consistent(ret.format, ret.result)

\* slugify has returned for a text of a token and a word that holds a digit.
C24_Witness ==
    /\ ret.op = "slugify"
    /\ ret.format = <<"A", "1", "%", "s">>
    /\ ret.result = <<"a", "1", "-", "0">>

\* C25. slugify reads nothing but its argument, and a key it returns is a
\* key it leaves unchanged: slugify(slugify(text)) = slugify(text).
C25_SlugifyIdempotent ==
    ret.op = "slugify" => slugify(ret.result) = ret.result

\* slugify has returned a key with a dash and an index in it.
C25_Witness ==
    /\ ret.op = "slugify"
    /\ ret.format = <<"A", " ", "%", "s">>
    /\ ret.result = <<"a", "-", "0">>
    /\ slugify(ret.result) = ret.result

\* The text with its k-th token (from 0) replaced by {k}.
Numbered(text) ==
    LET starts == TokenStarts(text)
    IN  Join([i \in 1..Len(text) |->
                 IF i \in starts
                 THEN <<"{">> \o Itoa(Cardinality({j \in starts : j < i}))
                        \o <<"}">>
                 ELSE IF i - 1 \in starts THEN <<>>
                 ELSE <<text[i]>>], <<>>)

\* C26. normalize returns the text with its tokens replaced, left to right,
\* by {0}, {1}, ..., and every other character unchanged, together with the
\* tokens in the order they occur; a text without token is returned
\* unchanged with an empty list.
C26_NormalizeNumbers ==
    ret.op = "normalize" =>
        /\ ret.out = Numbered(ret.format)
        /\ ret.matches =
             [k \in 1..Cardinality(TokenStarts(ret.format)) |->
                 SubSeq(ret.format, Nth(TokenStarts(ret.format), k),
                        Nth(TokenStarts(ret.format), k) + 1)]
        /\ TokenStarts(ret.format) = {} =>
              ret.out = ret.format /\ ret.matches = <<>>

\* normalize has returned for a text of two tokens.
C26_Witness ==
    /\ ret.op = "normalize"
    /\ ret.format = <<"%", "s", "%", "X">>
    /\ ret.out = <<"{", "0", "}", "{", "1", "}">>
    /\ ret.matches = << <<"%", "s">>, <<"%", "X">> >>

(***************************************************************************)
(* Plural templates the validation accepts.                                *)
(***************************************************************************)

\* C29, as stated: when the template P resolves has the plural marker and
\* validatePluralTemplate accepts it, P returns, for a count >= 0, the text
\* of the sub-template of the selected category or of the category other,
\* never the raw template.
C29_AcceptedResolvesAsStated ==
    (/\ ret.op = "P"
     /\ fn.count >= 0
     /\ Contains(PTemplate, PluralMarker)
     /\ validatePluralTemplate(fn.key, PTemplate) = NoErr)
    => \/ /\ HasSubTemplate(PTemplate, PForm)
          /\ ret.result = CategoryText(PTemplate, PForm, fn.count)
       \/ /\ HasSubTemplate(PTemplate, Other)
          /\ ret.result = CategoryText(PTemplate, Other, fn.count)

(***************************************************************************)
(* The keys of the extractor and the keys of the translation functions.    *)
(***************************************************************************)

\* The key the call looks up when the function it returns is called: the
\* key of the closure that F, S, T or P builds from the literal.
ResolutionKey(call) ==
    LET literal == LiteralValue(call.args[1])
    IN  IF call.fun = "F" THEN F(literal, <<>>).key
        ELSE IF call.fun = "S" THEN S(literal).key
        ELSE IF call.fun = "T" THEN T(literal, <<>>).key
        ELSE P(literal, 0).key

\* C30, as stated: the file GenerateTranslations writes has, for every
\* contributing call, an entry under the key that call looks up.
C30_KeysAgreeAsStated ==
    (ret.op = "GenerateTranslations" /\ ret.err = NoErr
        /\ Contributing(ret.root) # {}) =>
        \A call \in Contributing(ret.root) :
            /\ ret.path \in DOMAIN files
            /\ ResolutionKey(call) \in DOMAIN files[ret.path].translations

(***************************************************************************)
(* Late binding.                                                           *)
(***************************************************************************)

\* The function T, F, S or P would return now for the arguments fn was
\* built from.
Fresh(f) ==
    IF f.kind = "T" THEN T(f.key, f.args)
    ELSE IF f.kind = "F" THEN F(f.format, f.args)
    ELSE IF f.kind = "S" THEN S(f.text)
    ELSE P(f.key, f.count)

\* What the call returned is what a function built at the time of the call
\* returns.
LateBound ==
    ret.op = "fn" => ret.result = Invoke(Fresh(fn.f), ret.locale)

\* C27. A call of a TranslatedFunc returns what a function built from the
\* same arguments at the time of the call returns, whatever was registered,
\* added, overwritten or set as default language since it was built; and a
\* second call with the same locale, with no such change in between,
\* returns the same string.
C27_LateBinding ==
    /\ []LateBound
    /\ [][(ret.op = "fn" /\ ret'.op = "fn" /\ ret'.locale = ret.locale)
             => ret'.result = ret.result]_vars

\* The function T returned was built when no dictionary was registered,
\* and its call returns the entry added since, with the argument in it.
C27_Witness ==
    /\ ret.op = "fn"
    /\ fn.f.kind = "T"
    /\ fn.made.dictionaries = <<>>
    /\ ret.locale = Fr
    /\ ret.result = <<"5", "/", "{", "1", "}">>

====
